---------------------------- MODULE Spec2Model ----------------------------
(***************************************************************************)
(* Model of the ALVR server connection core                                *)
(* (alvr/server/src/connection.rs): client_discovery, client_handshake,    *)
(* StreamCloseGuard, connection_pipeline and connection_lifecycle_loop.    *)
(*                                                                         *)
(* Each await of the Rust code is a position (pc, hs_pc, ka_pc); the code  *)
(* between two awaits is one atomic action.  Time is discrete: Tick        *)
(* advances every running tokio sleep by TickMs milliseconds.              *)
(*                                                                         *)
(* Further parts share the module, each with its own specification:        *)
(* NegotiationSpec, the eye-resolution and refresh-rate negotiation of     *)
(* client_handshake (connection.rs:136-225); ClientSpec, the C ABI of the  *)
(* client core (alvr/client_core/src/lib.rs) with its persisted config     *)
(* (alvr/client_core/src/storage.rs); StorageSpec, Config::load and        *)
(* Config::store over the JSON text of the file; StreamSpec, the loops of  *)
(* one streaming connection and the driver calls they make                 *)
(* (connection.rs:738-865, 929-1038); KeepaliveSpec, keepalive_loop and    *)
(* the RESTART_NOTIFIER branch with the locks they take                    *)
(* (connection.rs:887-927, 1028-1037); SendSpec, video_send_loop and       *)
(* haptics_send_loop with the channels they drain (connection.rs:705-736); *)
(* and LatencySpec, the lifecycle together with statistics_receive_loop    *)
(* (connection.rs:867-885).                                                *)
(***************************************************************************)
EXTENDS Naturals, FiniteSets, Sequences

\* ------------------------------------------------------------- constants
\* Durations in milliseconds (connection.rs:43-46, 567).
CONTROL_CONNECT_RETRY_PAUSE == 500
RETRY_CONNECT_MIN_INTERVAL == 1000
NETWORK_KEEPALIVE_INTERVAL == 1000
CLEANUP_PAUSE == 500
STREAM_SETUP_TIMEOUT == 5000

\* Granularity of the model's clock, in milliseconds.
TickMs == 500

\* The clients on the network: hostname and the IP it is reachable at.
Hostnames == { "1234.client.alvr" }
IpOf(h) == IF h = "1234.client.alvr" THEN "10.0.0.1" ELSE "10.0.0.2"
None == "None"

\* The values of settings.video.encode_bitrate_mbs the UI switches between.
Bitrates == {30, 40}

\* The fallible steps between the installation of the stream close guard
\* and the select over the stream loops (connection.rs:595-870).
SetupSteps ==
    << "request_stream(AUDIO)", "AudioDevice::new(microphone)",
       "subscribe_to_stream(AUDIO)", "request_stream(VIDEO)",
       "request_stream(HAPTICS)", "subscribe_to_stream(TRACKING)",
       "subscribe_to_stream(STATISTICS)" >>

\* The branches of the select at connection.rs:1006-1038 that are loops.
\* game_audio_loop is a loop without exit and never resolves.
EndingLoops ==
    { "receive_loop", "microphone_loop", "video_send_loop",
      "statistics_receive_loop", "haptics_send_loop",
      "tracking_receive_loop", "keepalive_loop", "control_loop" }

\* ------------------------------------------------------------- state
VARIABLES
    settings,           \* SERVER_DATA_MANAGER.settings()
    client_list,        \* SERVER_DATA_MANAGER.client_list(): the Client Registry
    openvr_config,      \* SERVER_DATA_MANAGER.session().openvr_config (persisted)
    restart_requested,  \* notify_restart_driver() was called, restart not yet done
    restart_due,        \* a handshake found the config changed since the driver started
    lc_pc,              \* connection_lifecycle_loop position
    pc,                 \* connection_pipeline position
    trusted_discovered_client_id,
    discovery_running,  \* the client_discovery future of the current select exists
    clients_updated,    \* CLIENTS_UPDATED_NOTIFIER fired for the waiting select
    hs_pc,              \* client_handshake position
    hs_client_ips,      \* client_handshake: client_ips
    hs_client_ip,       \* client_handshake: client_ip of the connected control socket
    new_openvr_config,  \* client_handshake: new_openvr_config
    restarting_sent,    \* Restarting on the current control socket: no / sent / failed
    conn_client,        \* ConnectionInfo.client_ip held by connection_pipeline
    setup_idx,          \* next element of SetupSteps
    stream_guard,       \* _stream_guard is alive
    ka_pc,              \* keepalive_loop position
    peer_lost,          \* the peer of the streaming connection is gone
    video_started,      \* video_send_loop was polled (spawned task ran)
    haptics_started,    \* haptics_send_loop was polled
    STATISTICS_MANAGER,
    VIDEO_SENDER,
    HAPTICS_SENDER,
    min_delay,          \* remaining time of sleep(RETRY_CONNECT_MIN_INTERVAL)
    sleep_timer,        \* remaining time of the pipeline's / lifecycle's own sleep
    hs_timer,           \* remaining time of sleep(CONTROL_CONNECT_RETRY_PAUSE)
    ka_timer,           \* remaining time of sleep(NETWORK_KEEPALIVE_INTERVAL)
    since_start,        \* time since the current pipeline attempt started (saturating)
    since_return,       \* time since connection_pipeline returned, while the join waits (saturating)
    attempt,            \* what the current attempt did: events and driver calls
    last_result         \* what the last connection_pipeline returned

cfgVars == << settings, client_list, openvr_config, restart_requested, restart_due >>
hsVars == << hs_pc, hs_client_ips, hs_client_ip, new_openvr_config, restarting_sent >>
connVars == << conn_client, setup_idx, stream_guard, ka_pc, peer_lost,
               video_started, haptics_started >>
slotVars == << STATISTICS_MANAGER, VIDEO_SENDER, HAPTICS_SENDER >>
timeVars == << min_delay, sleep_timer, hs_timer, ka_timer, since_start,
               since_return >>
ctlVars == << lc_pc, pc, trusted_discovered_client_id, discovery_running,
              clients_updated >>
serverVars == << cfgVars, hsVars, connVars, slotVars, timeVars, ctlVars,
                 attempt, last_result >>

\* The negotiation of client_handshake (connection.rs:134-225, 350-425):
\* resolution and refresh rate.
VARIABLES
    headset_info,       \* HeadsetInfoPacket received from the client
    video_settings,     \* settings.video: resolutions and preferred_fps
    client_config,      \* ClientConfigPacket sent to the client
    neg_openvr_config,  \* OpenvrConfig: resolution and refresh_rate fields
    neg_pc              \* "recv": headset_info received; "sent": packet sent

negVars == << headset_info, video_settings, client_config, neg_openvr_config,
              neg_pc >>

\* The client core (client_core/src/lib.rs, storage.rs): the process-wide
\* statics of lib.rs:43-62, the config file, and what the host observes.
VARIABLES
    RUNTIME,                    \* lib.rs:45
    task_pc,                    \* the task spawned at lib.rs:243
    task_notified,              \* its notified() future was woken
    destroy_pc,                 \* alvr_destroy position
    TRACKING_SENDER,            \* lib.rs:46
    STATISTICS_SENDER,          \* lib.rs:48
    CONTROL_CHANNEL_SENDER,     \* lib.rs:50
    CLIENT_STATISTICS_MANAGER,  \* STATISTICS_MANAGER of lib.rs:43
    EVENT_QUEUE,                \* lib.rs:57
    IS_RESUMED,                 \* lib.rs:59
    IS_STREAMING,               \* lib.rs:60
    config_file,                \* the file at config_path()
    out_event,                  \* *out_event of the host
    ret,                        \* the last value an API call returned, and the call
    enqueued,                   \* every event pushed so far, in order
    delivered,                  \* every event alvr_poll_event wrote, in order
    channel_sent,               \* the channels of the connection that hold a message
    hostname_obtained,          \* hostname of the last loaded Config
    destroyed                   \* alvr_destroy is the last call that returned

\* What the client and its host hold, and with `destroyed` all of it.
clientState == << RUNTIME, task_pc, task_notified, destroy_pc,
                  TRACKING_SENDER, STATISTICS_SENDER, CONTROL_CHANNEL_SENDER,
                  CLIENT_STATISTICS_MANAGER, EVENT_QUEUE, IS_RESUMED,
                  IS_STREAMING, config_file, out_event, ret, enqueued,
                  delivered, channel_sent, hostname_obtained >>
clientVars == << clientState, destroyed >>

\* The streaming phase of connection_pipeline (connection.rs:738-865,
\* 929-1002): what the loops of one connection receive and what they call
\* in the driver.
VARIABLES
    headset,                \* settings.headset: tracking_ref_only, controllers
    playspace_sync_channel, \* the packets in the channel of connection.rs:738
    playspace_sync_sender,  \* the sender of that channel is alive
    chaperone_pc,           \* the thread of connection.rs:743: none / recv / exited
    driver_calls,           \* the calls into the driver, in order
    frames_received,        \* what tracking_receive_loop's recv() returned, in order
    packets_received        \* what control_loop's recv() returned, in order

loopVars == << headset, playspace_sync_channel, playspace_sync_sender,
               chaperone_pc, driver_calls, frames_received, packets_received >>

\* The locks keepalive_loop takes (connection.rs:887-927) and the branch of
\* RESTART_NOTIFIER with it (1028-1037).
VARIABLES
    ka_step,                \* keepalive_loop: the await or lock it is at
    control_sender,         \* who holds the tokio Mutex of control_sender
    sends_in_flight,        \* the send futures on the control socket that exist
    restart_step,           \* the handler of the RESTART_NOTIFIER branch: lock / send
    data_manager_readers,   \* read guards of SERVER_DATA_MANAGER keepalive_loop holds
    writer_pc               \* another thread's SERVER_DATA_MANAGER.write(): idle / waiting / writing

lockVars == << ka_step, control_sender, sends_in_flight, restart_step,
               data_manager_readers, writer_pc >>

\* The in-process channels video_send_loop and haptics_send_loop drain
\* (connection.rs:705-736), per stream.
VARIABLES
    records_put,            \* how many records the driver has put into the channel
    send_channel,           \* the records in the channel, oldest first
    send_log                \* the calls of send_buffer, in order, each with its result

sendVars == << records_put, send_channel, send_log >>

\* The latency of the last ClientStatistics record, in milliseconds: a
\* static of the process (connection.rs:847-849, 874).
VARIABLES
    LAST_AVERAGE_TOTAL_LATENCY

statsVars == << LAST_AVERAGE_TOTAL_LATENCY >>

streamingVars == << loopVars, lockVars, sendVars, statsVars >>

vars == << serverVars, negVars, clientVars, streamingVars >>

\* ------------------------------------------------------------- helpers
Min(a, b) == IF a < b THEN a ELSE b
Elapse(t) == IF t > TickMs THEN t - TickMs ELSE 0

NoAttempt ==
    [ connected |-> 0, disconnected |-> 0, init |-> 0, deinit |-> 0,
      connect_script |-> 0, script |-> 0, loops_started |-> FALSE,
      ended_by |-> None ]

AbsentClient == [ present |-> FALSE, trusted |-> FALSE, manual_ips |-> {} ]

\* OpenvrConfig built by client_handshake from the settings it cloned.
NewOpenvrConfig(s) == [ encode_bitrate_mbs |-> s.encode_bitrate_mbs ]

NoConfig == [ encode_bitrate_mbs |-> 0 ]

\* --------------------------------------------------- pure parts of the code
\* update_client_list(hostname, AddIfMissing, ..): an unknown hostname gets
\* an entry with trusted = false and no manual IPs; a known one is kept.
UpdateClientListAddIfMissing(list, hostname) ==
    IF list[hostname].present
    THEN list
    ELSE [ list EXCEPT ![hostname] =
             [ present |-> TRUE, trusted |-> FALSE, manual_ips |-> {} ] ]

\* The closure client_discovery hands to search_client_loop, evaluated on
\* the updated client list (connection.rs:74-81).
ClientFoundCbAlways(list, hostname, auto_trust_clients) ==
    list[hostname].present

ClientFoundCb(list, hostname, auto_trust_clients) ==
    IF list[hostname].present
    THEN list[hostname].trusted \/ auto_trust_clients
    ELSE FALSE

\* search_client_loop resolves with the broadcast for which the callback
\* returned true and keeps searching otherwise.
SearchClientLoopResolves(found) == found

\* client_ips of client_handshake (connection.rs:102-112).
HandshakeClientIpsAllEntries(id, list) ==
    IF id # None
    THEN { IpOf(id) }
    ELSE { IpOf(h) : h \in { x \in Hostnames : list[x].present } }

HandshakeClientIps(id, list) ==
    IF id # None
    THEN { IpOf(id) }
    ELSE UNION { list[h].manual_ips : h \in Hostnames }

\* The test of connection.rs:427.
ConfigChangedAlways(persisted, new) == TRUE

ConfigChanged(persisted, new) == persisted # new

\* StreamCloseGuard::drop (connection.rs:453-472), as the calls it adds to
\* the record of the attempt.
StreamCloseGuardDropNoScript(att) ==
    [ att EXCEPT !.deinit = att.deinit + 1 ]

StreamCloseGuardDropScriptOnly(att) ==
    [ att EXCEPT !.script = IF settings.on_disconnect_script
                            THEN att.script + 1 ELSE att.script ]

StreamCloseGuardDrop(att) ==
    [ att EXCEPT !.deinit = att.deinit + 1,
                 !.script = IF settings.on_disconnect_script
                            THEN att.script + 1 ELSE att.script ]

\* The select branch of a stream loop (connection.rs:1008-1025): whether
\* ClientDisconnected is emitted when that loop is the one that ends.
EmitsClientDisconnected(loop) ==
    loop \in { "receive_loop", "keepalive_loop", "control_loop" }

\* The result connection_pipeline returns when `loop` ended with `res`.
BranchResult(loop, res) == IF loop = "receive_loop" THEN "Ok" ELSE res

\* connection_lifecycle_loop: `loop { join!(...) }` goes on whatever
\* connection_pipeline returned (show_err only reports).
LifecycleBreaksOnErr(res) == res # "Err"

LifecycleContinues(res) == TRUE

\* tokio::join!(async { pipeline; sleep(CLEANUP_PAUSE) }, sleep(MIN_INTERVAL))
\* completes when both have completed.
JoinAsSelect(cleanup_left, min_delay_left) ==
    cleanup_left = 0 \/ min_delay_left = 0

JoinDone(cleanup_left, min_delay_left) ==
    cleanup_left = 0 /\ min_delay_left = 0

\* ------------------------------------------------------------- initial state
\* The top of the loop of connection_pipeline (connection.rs:477-505): the
\* futures the select of line 507 races.  client_handshake reads its
\* candidate IPs when it starts.
StartIteration(id) ==
    /\ pc' = "connect"
    /\ trusted_discovered_client_id' = id
    /\ discovery_running' = (settings.client_discovery /\ id = None)
    /\ clients_updated' = FALSE
    /\ hs_pc' = "connecting"
    /\ hs_client_ips' = HandshakeClientIps(id, client_list)
    /\ hs_client_ip' = None
    /\ new_openvr_config' = NoConfig
    /\ hs_timer' = 0

\* The state of a freshly started server process whose lifecycle loop has
\* entered its first connection_pipeline.
ProcessStart ==
    /\ lc_pc = "pipeline"
    /\ pc = "connect"
    /\ trusted_discovered_client_id = None
    /\ discovery_running = settings.client_discovery
    /\ clients_updated = FALSE
    /\ hs_pc = "connecting"
    /\ hs_client_ips = HandshakeClientIps(None, client_list)
    /\ hs_client_ip = None
    /\ new_openvr_config = NoConfig
    /\ restarting_sent = "no"
    /\ conn_client = None
    /\ setup_idx = 0
    /\ stream_guard = FALSE
    /\ ka_pc = "off"
    /\ peer_lost = FALSE
    /\ video_started = FALSE
    /\ haptics_started = FALSE
    /\ STATISTICS_MANAGER = None
    /\ VIDEO_SENDER = None
    /\ HAPTICS_SENDER = None
    /\ min_delay = RETRY_CONNECT_MIN_INTERVAL
    /\ sleep_timer = 0
    /\ hs_timer = 0
    /\ ka_timer = 0
    /\ since_start = 0
    /\ since_return = 0
    /\ attempt = NoAttempt
    /\ last_result = None
    /\ restart_requested = FALSE
    /\ restart_due = FALSE

\* No negotiation is modelled: its variables hold fixed values.
NegOff ==
    /\ headset_info = None
    /\ video_settings = None
    /\ client_config = None
    /\ neg_openvr_config = None
    /\ neg_pc = "off"

\* The locks of the streaming phase are not modelled.
LocksOff ==
    /\ ka_step = "off"
    /\ control_sender = None
    /\ sends_in_flight = {}
    /\ restart_step = "off"
    /\ data_manager_readers = 0
    /\ writer_pc = "idle"

\* The loops of the streaming phase are not modelled.
LoopsOff ==
    /\ headset = None
    /\ playspace_sync_channel = << >>
    /\ playspace_sync_sender = FALSE
    /\ chaperone_pc = "none"
    /\ driver_calls = << >>
    /\ frames_received = << >>
    /\ packets_received = << >>

\* No streaming phase is modelled: its variables hold fixed values.
\* The sending loops are not modelled.
SendsOff ==
    /\ records_put = << >>
    /\ send_channel = << >>
    /\ send_log = << >>

\* No ClientStatistics record is modelled: the static keeps the value it
\* has when the process starts.
StatsOff == LAST_AVERAGE_TOTAL_LATENCY = 0

StreamingOff == LoopsOff /\ LocksOff /\ SendsOff /\ StatsOff

\* No client is modelled: its variables hold fixed values.
ClientOff ==
    /\ RUNTIME = None
    /\ task_pc = "none"
    /\ task_notified = FALSE
    /\ destroy_pc = "idle"
    /\ TRACKING_SENDER = << >>
    /\ STATISTICS_SENDER = << >>
    /\ CONTROL_CHANNEL_SENDER = << >>
    /\ CLIENT_STATISTICS_MANAGER = << >>
    /\ EVENT_QUEUE = << >>
    /\ IS_RESUMED = FALSE
    /\ IS_STREAMING = FALSE
    /\ config_file = None
    /\ out_event = 0
    /\ ret = None
    /\ enqueued = << >>
    /\ delivered = << >>
    /\ channel_sent = None
    /\ hostname_obtained = None
    /\ destroyed = FALSE

Init ==
    /\ StreamingOff
    /\ NegOff
    /\ ClientOff
    /\ settings \in [ encode_bitrate_mbs : Bitrates,
                      auto_trust_clients : BOOLEAN,
                      client_discovery : { TRUE },
                      on_connect_script : BOOLEAN,
                      on_disconnect_script : BOOLEAN ]
    /\ client_list = [ h \in Hostnames |-> AbsentClient ]
    /\ openvr_config \in { NewOpenvrConfig([ encode_bitrate_mbs |-> b ]) : b \in Bitrates }
    /\ ProcessStart

\* The server's connection loop is not modelled: a process start with fixed
\* settings, which no action moves.
ServerOff ==
    /\ settings = [ encode_bitrate_mbs |-> 30,
                    auto_trust_clients |-> FALSE,
                    client_discovery |-> TRUE,
                    on_connect_script |-> FALSE,
                    on_disconnect_script |-> FALSE ]
    /\ client_list = [ h \in Hostnames |-> AbsentClient ]
    /\ openvr_config = NewOpenvrConfig(settings)
    /\ ProcessStart

\* ------------------------------------------------------------- returning
\* connection_pipeline returns `res`: its locals are dropped (the futures of
\* the select, the control socket, _stream_guard), and the lifecycle loop
\* reports the result and sleeps CLEANUP_PAUSE (connection.rs:1045-1048).
PipelineReturns(res, att, sent) ==
    /\ pc' = "idle"
    /\ lc_pc' = "cleanup"
    /\ sleep_timer' = CLEANUP_PAUSE
    /\ last_result' = res
    /\ attempt' = IF stream_guard THEN StreamCloseGuardDrop(att) ELSE att
    /\ stream_guard' = FALSE
    /\ restarting_sent' = sent
    /\ trusted_discovered_client_id' = None
    /\ discovery_running' = FALSE
    /\ clients_updated' = FALSE
    /\ hs_pc' = "off"
    /\ hs_client_ips' = {}
    /\ hs_client_ip' = None
    /\ new_openvr_config' = NoConfig
    /\ conn_client' = None
    /\ setup_idx' = 0
    /\ ka_pc' = "off"
    /\ video_started' = FALSE
    /\ haptics_started' = FALSE
    /\ hs_timer' = 0
    /\ ka_timer' = 0
    /\ since_return' = 0
    /\ UNCHANGED << cfgVars, slotVars, min_delay, since_start, peer_lost >>

\* ------------------------------------------------------------- lifecycle
\* connection_lifecycle_loop: the join of one iteration is complete and the
\* next iteration starts connection_pipeline and the minimum-interval sleep.
LifecycleNext ==
    /\ lc_pc = "cleanup"
    /\ JoinDone(sleep_timer, min_delay)
    /\ LifecycleContinues(last_result)
    /\ lc_pc' = "pipeline"
    /\ min_delay' = RETRY_CONNECT_MIN_INTERVAL
    /\ since_start' = 0
    /\ since_return' = 0
    /\ attempt' = NoAttempt
    /\ peer_lost' = FALSE
    /\ last_result' = None
    /\ restarting_sent' = "no"
    /\ StartIteration(None)
    /\ UNCHANGED << cfgVars, slotVars, sleep_timer, ka_timer, conn_client,
                    setup_idx, stream_guard, ka_pc, video_started,
                    haptics_started >>

\* Time passes: every running sleep gets TickMs closer to its end.
Tick ==
    /\ min_delay' = Elapse(min_delay)
    /\ sleep_timer' = Elapse(sleep_timer)
    /\ hs_timer' = Elapse(hs_timer)
    /\ ka_timer' = Elapse(ka_timer)
    /\ since_start' = Min(since_start + TickMs, RETRY_CONNECT_MIN_INTERVAL)
    /\ since_return' = IF lc_pc = "cleanup"
                       THEN Min(since_return + TickMs, RETRY_CONNECT_MIN_INTERVAL)
                       ELSE since_return
    /\ UNCHANGED << cfgVars, hsVars, connVars, slotVars, ctlVars, attempt,
                    last_result >>

\* ------------------------------------------------------------- discovery
\* client_discovery: search_client_loop received the broadcast of `hostname`
\* and ran the closure: the client list is updated (watchers are notified
\* when an entry was added), and the loop resolves when the closure found
\* the client trusted.  Resolving makes the select of connection_pipeline
\* take Either::Left(Ok(id)): the handshake future is dropped and the
\* pipeline sleeps CLEANUP_PAUSE (connection.rs:510-512, 530).
ClientDiscoveryBroadcast(hostname) ==
    /\ pc = "connect"
    /\ discovery_running
    /\ LET list == UpdateClientListAddIfMissing(client_list, hostname)
           added == ~client_list[hostname].present
           found == ClientFoundCb(list, hostname, settings.auto_trust_clients)
       IN  /\ client_list' = list
           /\ IF SearchClientLoopResolves(found)
              THEN /\ trusted_discovered_client_id' = hostname
                   /\ pc' = "cleanup_pause"
                   /\ sleep_timer' = CLEANUP_PAUSE
                   /\ discovery_running' = FALSE
                   /\ clients_updated' = FALSE
                   /\ hs_pc' = "off"
                   /\ hs_client_ips' = {}
                   /\ hs_client_ip' = None
                   /\ new_openvr_config' = NoConfig
                   /\ hs_timer' = 0
              ELSE /\ clients_updated' = (clients_updated \/ added)
                   /\ UNCHANGED << trusted_discovered_client_id, pc, sleep_timer,
                                   discovery_running, hs_pc, hs_client_ips,
                                   hs_client_ip, new_openvr_config, hs_timer >>
    /\ UNCHANGED << settings, openvr_config, restart_requested, restart_due,
                    restarting_sent, connVars, slotVars, min_delay, ka_timer,
                    since_start, since_return, lc_pc, attempt, last_result >>

\* client_discovery returns an error (search_client_loop failed): the
\* pipeline logs it and returns Ok (connection.rs:513-516).
DiscoveryErrorSurfaced == "Err"

DiscoveryErrorResult == "Ok"

ClientDiscoveryFails ==
    /\ pc = "connect"
    /\ discovery_running
    /\ PipelineReturns(DiscoveryErrorResult,
                       [ attempt EXCEPT !.ended_by = "client_discovery" ],
                       restarting_sent)

\* CLIENTS_UPDATED_NOTIFIER.notified() wins the select (connection.rs:527).
ClientsUpdatedSurfaced == "Err"

ClientsUpdatedResult == "Ok"

ClientsUpdatedNotified ==
    /\ pc = "connect"
    /\ clients_updated
    /\ PipelineReturns(ClientsUpdatedResult,
                       [ attempt EXCEPT !.ended_by = "CLIENTS_UPDATED_NOTIFIER" ],
                       restarting_sent)

\* The sleep of connection.rs:530 is over: next iteration of the loop.
CleanupPauseDone ==
    /\ pc = "cleanup_pause"
    /\ sleep_timer = 0
    /\ StartIteration(trusted_discovered_client_id)
    /\ UNCHANGED << cfgVars, connVars, slotVars, min_delay, sleep_timer,
                    ka_timer, since_start, since_return, lc_pc, restarting_sent, attempt,
                    last_result >>

\* ------------------------------------------------------------- handshake
\* ProtoControlSocket::connect_to(AnyClient(client_ips)) (connection.rs:115):
\* it connects to one of the candidates, or fails and the handshake pauses.
HandshakeConnect(r) ==
    /\ pc = "connect"
    /\ hs_pc = "connecting"
    /\ IF r = "timeout"
       THEN /\ hs_pc' = "retry_pause"
            /\ hs_timer' = CONTROL_CONNECT_RETRY_PAUSE
            /\ UNCHANGED << hs_client_ip, restarting_sent >>
       ELSE /\ r \in hs_client_ips
            /\ hs_pc' = "recv_result"
            /\ hs_client_ip' = r
            /\ restarting_sent' = "no"
            /\ UNCHANGED hs_timer
    /\ UNCHANGED << cfgVars, hs_client_ips, new_openvr_config, connVars,
                    slotVars, min_delay, sleep_timer, ka_timer, since_start, since_return,
                    ctlVars, attempt, last_result >>

\* proto_socket.recv() (connection.rs:118-129) and, for ServerAccepted, the
\* code up to the await of line 225: the settings are cloned and the new
\* OpenvrConfig is a function of them; opening the game audio device
\* (connection.rs:183-187, 201) or the microphone device (189-193) may fail,
\* and the `?` makes client_handshake return the error.
HandshakeRecv(r) ==
    /\ pc = "connect"
    /\ hs_pc = "recv_result"
    /\ CASE r = "ServerAccepted" ->
              /\ hs_pc' = "send_config"
              /\ new_openvr_config' = NewOpenvrConfig(settings)
              /\ UNCHANGED << cfgVars, hs_client_ips, hs_client_ip,
                              restarting_sent, connVars, slotVars, timeVars,
                              ctlVars, attempt, last_result >>
         [] r = "ClientStandby" ->
              /\ hs_pc' = "retry_pause"
              /\ hs_client_ip' = None
              /\ hs_timer' = CONTROL_CONNECT_RETRY_PAUSE
              /\ UNCHANGED << cfgVars, hs_client_ips, new_openvr_config,
                              restarting_sent, connVars, slotVars, min_delay,
                              sleep_timer, ka_timer, since_start, since_return, ctlVars,
                              attempt, last_result >>
         [] r \in { "Err", "GameAudioDeviceErr", "MicrophoneDeviceErr" } ->
              PipelineReturns("Ok", attempt, restarting_sent)

\* A connect loop that goes round without the sleep of connection.rs:131.
HandshakeRetryWithoutPause ==
    /\ pc = "connect"
    /\ hs_pc = "retry_pause"
    /\ hs_pc' = "connecting"
    /\ UNCHANGED << cfgVars, hs_client_ips, hs_client_ip, new_openvr_config,
                    restarting_sent, connVars, slotVars, timeVars, ctlVars,
                    attempt, last_result >>

\* The sleep of connection.rs:131 is over.
HandshakeRetry ==
    /\ pc = "connect"
    /\ hs_pc = "retry_pause"
    /\ hs_timer = 0
    /\ hs_pc' = "connecting"
    /\ UNCHANGED << cfgVars, hs_client_ips, hs_client_ip, new_openvr_config,
                    restarting_sent, connVars, slotVars, timeVars, ctlVars,
                    attempt, last_result >>

\* proto_socket.send(&client_config) completed (connection.rs:225) and the
\* code up to the next await ran: the comparison of line 427, then either
\* the write of line 428 and the start of the Restarting send, or the
\* return of ConnectionInfo, which the select of connection_pipeline takes
\* (Either::Right(Ok(..)), line 517), leaving the loop; the discovered id
\* is not read after the loop.
HandshakeSendConfig(ok) ==
    /\ pc = "connect"
    /\ hs_pc = "send_config"
    /\ IF ~ok
       THEN PipelineReturns("Ok", attempt, restarting_sent)
       ELSE IF ConfigChanged(openvr_config, new_openvr_config)
       THEN /\ openvr_config' = new_openvr_config
            /\ restart_due' = TRUE
            /\ hs_pc' = "send_restarting"
            /\ UNCHANGED << settings, client_list, restart_requested,
                            hs_client_ips, hs_client_ip, new_openvr_config,
                            restarting_sent, connVars, slotVars, timeVars,
                            ctlVars, attempt, last_result >>
       ELSE /\ pc' = "start_stream"
            /\ conn_client' = hs_client_ip
            /\ hs_pc' = "off"
            /\ hs_client_ips' = {}
            /\ hs_client_ip' = None
            /\ new_openvr_config' = NoConfig
            /\ discovery_running' = FALSE
            /\ clients_updated' = FALSE
            /\ trusted_discovered_client_id' = None
            /\ UNCHANGED << cfgVars, restarting_sent, setup_idx, stream_guard,
                            ka_pc, peer_lost, video_started, haptics_started,
                            slotVars, timeVars, lc_pc, attempt, last_result >>

\* A handshake that, after triggering the restart, returned its
\* ConnectionInfo instead of suspending.
HandshakeSendRestartingReturns(ok) ==
    /\ pc = "connect"
    /\ hs_pc = "send_restarting"
    /\ restarting_sent' = IF ok THEN "sent" ELSE "failed"
    /\ restart_requested' = TRUE
    /\ pc' = "start_stream"
    /\ conn_client' = hs_client_ip
    /\ hs_pc' = "off"
    /\ hs_client_ips' = {}
    /\ hs_client_ip' = None
    /\ new_openvr_config' = NoConfig
    /\ discovery_running' = FALSE
    /\ clients_updated' = FALSE
    /\ trusted_discovered_client_id' = None
    /\ UNCHANGED << settings, client_list, openvr_config, restart_due,
                    setup_idx, stream_guard, ka_pc, peer_lost, video_started,
                    haptics_started, slotVars, timeVars, lc_pc, attempt,
                    last_result >>

\* control_sender.send(&Restarting).await.ok() completed, with or without
\* error; notify_restart_driver() is called and the handshake suspends in
\* future::pending() (connection.rs:430-438).
HandshakeSendRestarting(ok) ==
    /\ pc = "connect"
    /\ hs_pc = "send_restarting"
    /\ restarting_sent' = IF ok THEN "sent" ELSE "failed"
    /\ restart_requested' = TRUE
    /\ hs_pc' = "pending"
    /\ UNCHANGED << settings, client_list, openvr_config, restart_due,
                    hs_client_ips, hs_client_ip, new_openvr_config, connVars,
                    slotVars, timeVars, ctlVars, attempt, last_result >>

\* The driver restart that notify_restart_driver() asked for takes place:
\* the server process starts anew with the persisted session.
DriverRestart ==
    /\ restart_requested
    /\ UNCHANGED << settings, client_list, openvr_config >>
    /\ restart_requested' = FALSE
    /\ restart_due' = FALSE
    /\ lc_pc' = "pipeline"
    /\ StartIteration(None)
    /\ restarting_sent' = "no"
    /\ conn_client' = None
    /\ setup_idx' = 0
    /\ stream_guard' = FALSE
    /\ ka_pc' = "off"
    /\ peer_lost' = FALSE
    /\ video_started' = FALSE
    /\ haptics_started' = FALSE
    /\ STATISTICS_MANAGER' = None
    /\ VIDEO_SENDER' = None
    /\ HAPTICS_SENDER' = None
    /\ min_delay' = RETRY_CONNECT_MIN_INTERVAL
    /\ sleep_timer' = 0
    /\ ka_timer' = 0
    /\ since_start' = 0
    /\ since_return' = 0
    /\ attempt' = NoAttempt
    /\ last_result' = None

\* ------------------------------------------------------------- supervisor
\* control_sender.lock().await.send(&StartStream).await? (connection.rs:542).
SendStartStream(ok) ==
    /\ pc = "start_stream"
    /\ IF ok
       THEN /\ pc' = "wait_ack"
            /\ UNCHANGED << cfgVars, hsVars, connVars, slotVars, timeVars,
                            lc_pc, trusted_discovered_client_id,
                            discovery_running, clients_updated, attempt,
                            last_result >>
       ELSE PipelineReturns("Err", attempt, restarting_sent)

\* The match of connection.rs:548-556 on what control_receiver.recv()
\* returned.
AnyPacketIsStreamAck(r) == r # "Err"

IsStreamAck(r) == r = "StreamReady"

\* control_receiver.recv() (connection.rs:548-556): only StreamReady lets
\* the pipeline go on, to the select of lines 560-570.
RecvStreamAck(r) ==
    /\ pc = "wait_ack"
    /\ IF IsStreamAck(r)
       THEN /\ pc' = "stream_socket"
            /\ sleep_timer' = STREAM_SETUP_TIMEOUT
            /\ UNCHANGED << cfgVars, hsVars, connVars, slotVars, min_delay,
                            hs_timer, ka_timer, since_start, since_return, lc_pc,
                            trusted_discovered_client_id, discovery_running,
                            clients_updated, attempt, last_result >>
       ELSE PipelineReturns("Err",
                            [ attempt EXCEPT !.ended_by = "stream ack" ],
                            restarting_sent)

\* StreamSocketBuilder::connect_to_client resolved (connection.rs:561-566).
\* On success the code up to the first await of the loop set-up runs:
\* STATISTICS_MANAGER is filled, ClientConnected is sent, the connect script
\* is spawned, InitializeStreaming is called and the guard is created
\* (connection.rs:573-594).
StreamSocketConnect(ok) ==
    /\ pc = "stream_socket"
    /\ IF ok
       THEN /\ pc' = "setup"
            /\ sleep_timer' = 0
            /\ STATISTICS_MANAGER' = "Some"
            /\ attempt' = [ attempt EXCEPT
                              !.connected = @ + 1,
                              !.connect_script =
                                  IF settings.on_connect_script THEN @ + 1 ELSE @,
                              !.init = @ + 1 ]
            /\ stream_guard' = TRUE
            /\ setup_idx' = 1
            /\ UNCHANGED << cfgVars, hsVars, conn_client, ka_pc, peer_lost,
                            video_started, haptics_started, VIDEO_SENDER,
                            HAPTICS_SENDER, min_delay, hs_timer, ka_timer,
                            since_start, since_return, lc_pc, trusted_discovered_client_id,
                            discovery_running, clients_updated, last_result >>
       ELSE PipelineReturns("Err", attempt, restarting_sent)

\* What the timeout branch of the select returns (connection.rs:567-569).
StreamSetupTimeoutIgnored == "Ok"

StreamSetupTimeoutResult == "Err"

\* The sleep of connection.rs:567 wins the select.
StreamSocketTimeout ==
    /\ pc = "stream_socket"
    /\ sleep_timer = 0
    /\ PipelineReturns(StreamSetupTimeoutResult,
                       [ attempt EXCEPT !.ended_by = "stream setup timeout" ],
                       restarting_sent)

\* One of the `?` steps that prepare the stream loops (SetupSteps).  After
\* the last one the select of connection.rs:1006 starts: the loops are
\* spawned and keepalive_loop is about to send.
SetupStep(ok) ==
    /\ pc = "setup"
    /\ IF ~ok
       THEN PipelineReturns("Err", attempt, restarting_sent)
       ELSE /\ IF setup_idx < Len(SetupSteps)
               THEN /\ setup_idx' = setup_idx + 1
                    /\ UNCHANGED << pc, ka_pc, attempt >>
               ELSE /\ setup_idx' = 0
                    /\ pc' = "streaming"
                    /\ ka_pc' = "send"
                    /\ attempt' = [ attempt EXCEPT !.loops_started = TRUE ]
            /\ UNCHANGED << cfgVars, hsVars, conn_client, stream_guard,
                            peer_lost, video_started, haptics_started,
                            slotVars, timeVars, lc_pc,
                            trusted_discovered_client_id, discovery_running,
                            clients_updated, last_result >>

\* The spawned video_send_loop runs for the first time (connection.rs:708-709).
VideoSendLoopStart ==
    /\ pc = "streaming"
    /\ ~video_started
    /\ video_started' = TRUE
    /\ VIDEO_SENDER' = "Some"
    /\ UNCHANGED << cfgVars, hsVars, conn_client, setup_idx, stream_guard,
                    ka_pc, peer_lost, haptics_started, STATISTICS_MANAGER,
                    HAPTICS_SENDER, timeVars, ctlVars, attempt, last_result >>

\* The spawned haptics_send_loop runs for the first time (connection.rs:724-725).
HapticsSendLoopStart ==
    /\ pc = "streaming"
    /\ ~haptics_started
    /\ haptics_started' = TRUE
    /\ HAPTICS_SENDER' = "Some"
    /\ UNCHANGED << cfgVars, hsVars, conn_client, setup_idx, stream_guard,
                    ka_pc, peer_lost, video_started, STATISTICS_MANAGER,
                    VIDEO_SENDER, timeVars, ctlVars, attempt, last_result >>

\* The client goes away while streaming (TCP reset, power off).
PeerLost ==
    /\ pc = "streaming"
    /\ ~peer_lost
    /\ peer_lost' = TRUE
    /\ UNCHANGED << cfgVars, hsVars, conn_client, setup_idx, stream_guard,
                    ka_pc, video_started, haptics_started, slotVars, timeVars,
                    ctlVars, attempt, last_result >>

\* The select of connection.rs:1006 resolves because `loop` ended with
\* `res`: the event is sent where the branch sends one, everything else is
\* dropped and connection_pipeline returns.
SelectResolves(loop, res) ==
    PipelineReturns(
        BranchResult(loop, res),
        [ attempt EXCEPT !.ended_by = loop,
                         !.disconnected =
                             IF EmitsClientDisconnected(loop) THEN @ + 1 ELSE @ ],
        restarting_sent)

\* keepalive_loop: the send of KeepAlive (connection.rs:891-900).  A send to
\* a lost peer may fail; then the loop sends the event and ends.
KeepaliveSend(ok) ==
    /\ pc = "streaming"
    /\ ka_pc = "send"
    /\ IF ok
       THEN /\ ka_pc' = "sleep"
            /\ ka_timer' = NETWORK_KEEPALIVE_INTERVAL
            /\ UNCHANGED << cfgVars, hsVars, conn_client, setup_idx,
                            stream_guard, peer_lost, video_started,
                            haptics_started, slotVars, min_delay, sleep_timer,
                            hs_timer, since_start, since_return, ctlVars, attempt,
                            last_result >>
       ELSE /\ peer_lost
            /\ SelectResolves("keepalive_loop", "Ok")

\* keepalive_loop: the sleep is over, the bitrate parameters are copied to
\* the driver and the loop sends again (connection.rs:901-925).
KeepaliveWake ==
    /\ pc = "streaming"
    /\ ka_pc = "sleep"
    /\ ka_timer = 0
    /\ ka_pc' = "send"
    /\ UNCHANGED << cfgVars, hsVars, conn_client, setup_idx, stream_guard,
                    peer_lost, video_started, haptics_started, slotVars,
                    timeVars, ctlVars, attempt, last_result >>

\* A stream loop other than keepalive_loop ends.  The receiving loops and
\* control_loop end when the peer is lost (their recv fails); the sending
\* loops end with the error of new_buffer; microphone_loop ends when
\* play_audio_loop does.
LoopEnds(loop, res) ==
    /\ pc = "streaming"
    /\ CASE loop = "receive_loop" -> peer_lost
         [] loop = "control_loop" -> peer_lost /\ res = "Ok"
         [] loop \in { "tracking_receive_loop", "statistics_receive_loop" } ->
              peer_lost /\ res = "Err"
         [] loop = "video_send_loop" -> video_started /\ res = "Err"
         [] loop = "haptics_send_loop" -> haptics_started /\ res = "Err"
         [] loop = "microphone_loop" -> TRUE
         [] OTHER -> FALSE
    /\ SelectResolves(loop, res)

\* game_audio_loop (connection.rs:598-660): the output device cannot be
\* opened, or record_audio_loop ended (with Ok or Err): the loop warns,
\* sleeps where it does, and goes on with its next iteration.  Nothing of
\* the connection changes.
GameAudioLoopRetries ==
    /\ pc = "streaming"
    /\ UNCHANGED serverVars

\* DISCONNECT_CLIENT_NOTIFIER.notified() wins the select (connection.rs:1027).
DisconnectClientNotified ==
    /\ pc = "streaming"
    /\ PipelineReturns("Ok",
                       [ attempt EXCEPT !.ended_by = "DISCONNECT_CLIENT_NOTIFIER" ],
                       restarting_sent)

\* RESTART_NOTIFIER.notified() wins the select (connection.rs:1028): the
\* other branches are dropped and the handler starts to send Restarting.
RestartNotified ==
    /\ pc = "streaming"
    /\ pc' = "restart_send"
    /\ ka_pc' = "off"
    /\ ka_timer' = 0
    /\ attempt' = [ attempt EXCEPT !.ended_by = "RESTART_NOTIFIER" ]
    /\ UNCHANGED << cfgVars, hsVars, conn_client, setup_idx, stream_guard,
                    peer_lost, video_started, haptics_started, slotVars,
                    min_delay, sleep_timer, hs_timer, since_start, since_return, lc_pc,
                    trusted_discovered_client_id, discovery_running,
                    clients_updated, last_result >>

\* What the RESTART_NOTIFIER branch returns after its send, whose result
\* goes through .ok() (connection.rs:1033-1036).
RestartBranchResultOfSend(ok) == IF ok THEN "Ok" ELSE "Err"

RestartBranchResult(ok) == "Ok"

\* The send of Restarting completed, its error ignored (connection.rs:1029-1036).
RestartSendDone(ok) ==
    /\ pc = "restart_send"
    /\ PipelineReturns(RestartBranchResult(ok), attempt,
                       IF ok THEN "sent" ELSE "failed")

\* ------------------------------------------------------------- the dashboard
\* The user trusts a client of the list; the watchers are notified.
UiTrustClient(hostname) ==
    /\ client_list[hostname].present
    /\ ~client_list[hostname].trusted
    /\ client_list' = [ client_list EXCEPT ![hostname].trusted = TRUE ]
    /\ clients_updated' = (clients_updated \/ pc = "connect")
    /\ UNCHANGED << settings, openvr_config, restart_requested, restart_due,
                    hsVars, connVars, slotVars, timeVars, lc_pc, pc,
                    trusted_discovered_client_id, discovery_running, attempt,
                    last_result >>

\* The user gives a client of the list its IP as a manual IP.
UiAddManualIp(hostname) ==
    /\ client_list[hostname].present
    /\ IpOf(hostname) \notin client_list[hostname].manual_ips
    /\ client_list' = [ client_list EXCEPT ![hostname].manual_ips =
                                               @ \cup { IpOf(hostname) } ]
    /\ clients_updated' = (clients_updated \/ pc = "connect")
    /\ UNCHANGED << settings, openvr_config, restart_requested, restart_due,
                    hsVars, connVars, slotVars, timeVars, lc_pc, pc,
                    trusted_discovered_client_id, discovery_running, attempt,
                    last_result >>

\* The user changes the encoder bitrate in the settings.
UiSetBitrate(b) ==
    /\ b # settings.encode_bitrate_mbs
    /\ settings' = [ settings EXCEPT !.encode_bitrate_mbs = b ]
    /\ UNCHANGED << client_list, openvr_config, restart_requested, restart_due,
                    hsVars, connVars, slotVars, timeVars, ctlVars, attempt,
                    last_result >>

\* ------------------------------------------------------------- specification
Next ==
    \/ LifecycleNext /\ UNCHANGED << negVars, clientVars, streamingVars >>
    \/ Tick /\ UNCHANGED << negVars, clientVars, streamingVars >>
    \/ \E h \in Hostnames : ClientDiscoveryBroadcast(h)
          /\ UNCHANGED << negVars, clientVars, streamingVars >>
    \/ ClientDiscoveryFails /\ UNCHANGED << negVars, clientVars, streamingVars >>
    \/ ClientsUpdatedNotified /\ UNCHANGED << negVars, clientVars, streamingVars >>
    \/ CleanupPauseDone /\ UNCHANGED << negVars, clientVars, streamingVars >>
    \/ \E r \in { "timeout" } \cup { IpOf(h) : h \in Hostnames } : HandshakeConnect(r)
          /\ UNCHANGED << negVars, clientVars, streamingVars >>
    \/ \E r \in { "ServerAccepted", "ClientStandby", "Err",
                  "GameAudioDeviceErr", "MicrophoneDeviceErr" } :
          HandshakeRecv(r) /\ UNCHANGED << negVars, clientVars, streamingVars >>
    \/ HandshakeRetry /\ UNCHANGED << negVars, clientVars, streamingVars >>
    \/ \E ok \in BOOLEAN : HandshakeSendConfig(ok) /\ UNCHANGED << negVars, clientVars, streamingVars >>
    \/ \E ok \in BOOLEAN : HandshakeSendRestarting(ok) /\ UNCHANGED << negVars, clientVars, streamingVars >>
    \/ DriverRestart /\ UNCHANGED << negVars, clientVars, streamingVars >>
    \/ \E ok \in BOOLEAN : SendStartStream(ok) /\ UNCHANGED << negVars, clientVars, streamingVars >>
    \/ \E r \in { "StreamReady", "other", "Err" } : RecvStreamAck(r)
          /\ UNCHANGED << negVars, clientVars, streamingVars >>
    \/ \E ok \in BOOLEAN : StreamSocketConnect(ok) /\ UNCHANGED << negVars, clientVars, streamingVars >>
    \/ StreamSocketTimeout /\ UNCHANGED << negVars, clientVars, streamingVars >>
    \/ \E ok \in BOOLEAN : SetupStep(ok) /\ UNCHANGED << negVars, clientVars, streamingVars >>
    \/ VideoSendLoopStart /\ UNCHANGED << negVars, clientVars, streamingVars >>
    \/ HapticsSendLoopStart /\ UNCHANGED << negVars, clientVars, streamingVars >>
    \/ PeerLost /\ UNCHANGED << negVars, clientVars, streamingVars >>
    \/ \E ok \in BOOLEAN : KeepaliveSend(ok) /\ UNCHANGED << negVars, clientVars, streamingVars >>
    \/ KeepaliveWake /\ UNCHANGED << negVars, clientVars, streamingVars >>
    \/ \E loop \in EndingLoops, res \in { "Ok", "Err" } : LoopEnds(loop, res)
          /\ UNCHANGED << negVars, clientVars, streamingVars >>
    \/ GameAudioLoopRetries /\ UNCHANGED << negVars, clientVars, streamingVars >>
    \/ DisconnectClientNotified /\ UNCHANGED << negVars, clientVars, streamingVars >>
    \/ RestartNotified /\ UNCHANGED << negVars, clientVars, streamingVars >>
    \/ \E ok \in BOOLEAN : RestartSendDone(ok) /\ UNCHANGED << negVars, clientVars, streamingVars >>
    \/ \E h \in Hostnames : UiTrustClient(h) /\ UNCHANGED << negVars, clientVars, streamingVars >>
    \/ \E h \in Hostnames : UiAddManualIp(h) /\ UNCHANGED << negVars, clientVars, streamingVars >>
    \/ \E b \in Bitrates : UiSetBitrate(b) /\ UNCHANGED << negVars, clientVars, streamingVars >>

Spec == Init /\ [][Next]_vars

\* Fairness of the lifecycle: time passes (tokio timers fire) and the
\* lifecycle task is polled when its join is complete.
LiveSpec ==
    /\ Spec
    /\ WF_vars(Tick /\ UNCHANGED << negVars, clientVars, streamingVars >>)
    /\ WF_vars(LifecycleNext /\ UNCHANGED << negVars, clientVars, streamingVars >>)

\* ------------------------------------------------------------- negotiation
\* The resolution and refresh-rate negotiation of client_handshake, taken
\* alone: the server has received headset_info (connection.rs:114-132) and
\* computes and sends ClientConfigPacket (connection.rs:134-225) and builds
\* new_openvr_config (connection.rs:350-425).
\*
\* The f32 eye sizes are held in units of 1/SubPixel pixel, which makes the
\* scales and the halved absolute widths of the model exact.  All values
\* stay far below 2^24 and 2^32, where f32 is exact on these operations and
\* `as u32` does not saturate.
SubPixel == 4

\* Stands for f32::MAX (connection.rs:158): above every difference of two
\* refresh rates.
F32_MAX == 2147483647

RecommendedEyeWidths == { 31, 1832, 1920 }
RecommendedEyeHeights == { 1920, 2000 }
RefreshRates == { 60, 72, 78, 90 }
PreferredFps == { 60, 75 }
MaxRefreshRates == 4

\* FrameSize: Scale(scale), scale in units of 1/SubPixel, or
\* Absolute { width, height }.
FrameSizes ==
    { [ type |-> "Scale", scale |-> sc, width |-> 0, height |-> 0 ] :
        sc \in { SubPixel - 1, SubPixel, SubPixel + 1 } }
    \cup
    { [ type |-> "Absolute", scale |-> 0, width |-> wh[1], height |-> wh[2] ] :
        wh \in { << 3663, 1920 >>, << 2880, 1601 >> } }

RefreshRateLists ==
    UNION { [ 1..n -> RefreshRates ] : n \in 0..MaxRefreshRates }

\* (eye_width, eye_height) of connection.rs:136-142 and 146-152, in units
\* of 1/SubPixel pixel.
EyeSize(frame_size, info) ==
    IF frame_size.type = "Scale"
    THEN << info.recommended_eye_width * frame_size.scale,
            info.recommended_eye_height * frame_size.scale >>
    ELSE << (frame_size.width * SubPixel) \div 2,
            frame_size.height * SubPixel >>

\* align32 (connection.rs:48-50) on a value in units of 1/SubPixel pixel.
align32Nearest(value) ==
    ((value + 16 * SubPixel) \div (32 * SubPixel)) * 32

align32(value) ==
    (value \div (32 * SubPixel)) * 32

AbsDiff(a, b) == IF a < b THEN b - a ELSE a - b

\* The test of connection.rs:161.
CloserOrEqual(diff, min_diff) == diff <= min_diff

Closer(diff, min_diff) == diff < min_diff

\* The loop of connection.rs:159-165 over the rest of the list.
RECURSIVE FpsLoop(_, _, _, _)
FpsLoop(rates, preferred_fps, best_match, min_diff) ==
    IF rates = << >>
    THEN best_match
    ELSE LET rr == Head(rates)
             diff == AbsDiff(rr, preferred_fps)
         IN  IF Closer(diff, min_diff)
             THEN FpsLoop(Tail(rates), preferred_fps, rr, diff)
             ELSE FpsLoop(Tail(rates), preferred_fps, best_match, min_diff)

\* fps of connection.rs:156-167.
ChooseFps(rates, preferred_fps) == FpsLoop(rates, preferred_fps, 0, F32_MAX)

NegInit ==
    /\ StreamingOff
    /\ headset_info \in [ recommended_eye_width : RecommendedEyeWidths,
                          recommended_eye_height : RecommendedEyeHeights,
                          available_refresh_rates : RefreshRateLists ]
    /\ video_settings \in [ render_resolution : FrameSizes,
                            recommended_target_resolution : FrameSizes,
                            preferred_fps : PreferredFps ]
    /\ client_config = None
    /\ neg_openvr_config = None
    /\ neg_pc = "recv"
    /\ ServerOff
    /\ ClientOff

\* client_handshake from the settings snapshot to the send of
\* ClientConfigPacket, with the resolution and refresh_rate fields of
\* new_openvr_config.
HandshakeNegotiate ==
    /\ neg_pc = "recv"
    /\ LET video == EyeSize(video_settings.render_resolution, headset_info)
           target == EyeSize(video_settings.recommended_target_resolution,
                             headset_info)
           video_eye_width == align32(video[1])
           video_eye_height == align32(video[2])
           target_eye_width == align32(target[1])
           target_eye_height == align32(target[2])
           fps == ChooseFps(headset_info.available_refresh_rates,
                            video_settings.preferred_fps)
       IN  /\ client_config' =
                [ view_resolution_width |-> video_eye_width,
                  view_resolution_height |-> video_eye_height,
                  fps |-> fps ]
           /\ neg_openvr_config' =
                [ eye_resolution_width |-> video_eye_width,
                  eye_resolution_height |-> video_eye_height,
                  target_eye_resolution_width |-> target_eye_width,
                  target_eye_resolution_height |-> target_eye_height,
                  refresh_rate |-> fps ]
    /\ neg_pc' = "sent"
    /\ UNCHANGED << headset_info, video_settings, serverVars, clientVars,
                    streamingVars >>

NegNext == HandshakeNegotiate

NegotiationSpec == NegInit /\ [][NegNext]_vars

\* ------------------------------------------------------------- client core
\* The C ABI of the client (client_core/src/lib.rs) and its persisted config
\* (client_core/src/storage.rs).  The host calls the API from one thread,
\* one call after the other; the task spawned by alvr_initialize runs
\* concurrently on the runtime's threads.
MaxEvents == 2
MaxSamples == 1

\* Option: None and Some(value).
Nothing == << >>
Some(value) == << value >>
Unwrap(slot) == slot[1]

\* A Rust String, and the text of a file, is a sequence of pieces: a piece
\* is a character that JSON escapes (Quote, Backslash), a digit, or a run
\* of characters that JSON writes as they are.  Config::default makes "dddd.client.alvr" of four random
\* digits (storage.rs:34-40); protocol ids are u64 values.
Quote == "\""
Backslash == "\\"
ClientHostnames == { << "1234", ".client.alvr" >>, << "5678", ".client.alvr" >> }
protocol_id == 10
ProtocolIds == { 10, 9 }
Latencies == { 8000000, 12000000 }
LiveTask == { "spawned", "running" }

\* ---- serde_json, for the derived Serialize / Deserialize of Config
\* (storage.rs:22-26).  A text is a sequence of pieces.
DigitChars == << "0", "1", "2", "3", "4", "5", "6", "7", "8", "9" >>
IsDigit(piece) == piece \in { "0", "1", "2", "3", "4", "5", "6", "7", "8", "9" }
DigitValue(piece) == (CHOOSE d \in 1..10 : DigitChars[d] = piece) - 1

\* A u64 is written in decimal without leading zeros.
RECURSIVE FormatU64(_)
FormatU64(n) ==
    IF n < 10
    THEN << DigitChars[n + 1] >>
    ELSE Append(FormatU64(n \div 10), DigitChars[(n % 10) + 1])

\* The characters of a string between its quotes: Quote and Backslash are
\* written with a Backslash before them.
RECURSIVE Escape(_)
Escape(string) ==
    IF string = << >>
    THEN << >>
    ELSE (IF Head(string) \in { Quote, Backslash }
          THEN << Backslash, Head(string) >>
          ELSE << Head(string) >>) \o Escape(Tail(string))

\* What stands before the value of each field of a Config.
ProtocolIdKey == "{\"protocol_id\":"
HostnameKey == ",\"hostname\":"

\* serde_json::to_string(&config): the fields in the order of the struct.
to_string(config) ==
    << ProtocolIdKey >>
       \o FormatU64(config.protocol_id)
       \o << HostnameKey, Quote >>
       \o Escape(config.hostname)
       \o << Quote, "}" >>

ParseFailed == [ ok |-> FALSE, value |-> << >>, rest |-> << >> ]

\* The number at the start of a text: its digits, without a leading zero.
RECURSIVE DigitRun(_)
DigitRun(text) ==
    IF text # << >> /\ IsDigit(Head(text))
    THEN 1 + DigitRun(Tail(text))
    ELSE 0

RECURSIVE DigitsValue(_)
DigitsValue(digits) ==
    IF Len(digits) = 1
    THEN DigitValue(digits[1])
    ELSE DigitsValue(SubSeq(digits, 1, Len(digits) - 1)) * 10
            + DigitValue(digits[Len(digits)])

ParseU64(text) ==
    LET n == DigitRun(text)
    IN  IF n = 0 \/ (n > 1 /\ text[1] = "0")
        THEN [ ok |-> FALSE, value |-> 0, rest |-> << >> ]
        ELSE [ ok |-> TRUE, value |-> DigitsValue(SubSeq(text, 1, n)),
               rest |-> SubSeq(text, n + 1, Len(text)) ]

\* The string whose opening quote has been read: up to the closing quote,
\* a Backslash standing before the character it escapes.
RECURSIVE ParseStringBody(_)
ParseStringBody(text) ==
    IF text = << >>
    THEN ParseFailed
    ELSE IF Head(text) = Quote
    THEN [ ok |-> TRUE, value |-> << >>, rest |-> Tail(text) ]
    ELSE IF Head(text) = Backslash
    THEN IF Len(text) < 2 \/ text[2] \notin { Quote, Backslash }
         THEN ParseFailed
         ELSE LET r == ParseStringBody(Tail(Tail(text)))
              IN  IF r.ok
                  THEN [ r EXCEPT !.value = << text[2] >> \o @ ]
                  ELSE ParseFailed
    ELSE LET r == ParseStringBody(Tail(text))
         IN  IF r.ok
             THEN [ r EXCEPT !.value = << Head(text) >> \o @ ]
             ELSE ParseFailed

\* serde_json::from_str::<Config>(text): Some(config), or Nothing when the
\* text is not the JSON of a Config.  Of the texts serde_json accepts, the
\* model has those without white space whose fields come in the order of
\* the struct.
from_str(text) ==
    IF text = << >> \/ Head(text) # ProtocolIdKey
    THEN Nothing
    ELSE LET id == ParseU64(Tail(text))
         IN  IF ~id.ok \/ Len(id.rest) < 2
                \/ id.rest[1] # HostnameKey \/ id.rest[2] # Quote
             THEN Nothing
             ELSE LET name == ParseStringBody(Tail(Tail(id.rest)))
                  IN  IF name.ok /\ name.rest = << "}" >>
                      THEN Some([ protocol_id |-> id.value,
                                  hostname |-> name.value ])
                      ELSE Nothing

\* The file at config_path(): no file, or a file with its text.
NoFile == [ state |-> "absent", text |-> << >> ]
FileWith(text) == [ state |-> "present", text |-> text ]
CorruptFile == FileWith(<< "{\"hostname\":" >>)
FileOf(config) == FileWith(to_string(config))

\* Config::default (storage.rs:28-43); h is the random hostname.
ConfigDefault(h) == [ protocol_id |-> protocol_id, hostname |-> h ]

\* Config::store (storage.rs:65-70): a failed write is only logged.
ConfigStore(file, config, ok) == IF ok THEN FileOf(config) ELSE file

\* Config::load (storage.rs:47-50): the file is read and parsed.
ReadConfig(file) ==
    IF file.state = "present" THEN from_str(file.text) ELSE Nothing

\* Config::load (storage.rs:46-63): the config obtained and the file left.
ConfigLoadAlwaysDefault(file, h, ok) ==
    [ config |-> ConfigDefault(h),
      file |-> ConfigStore(file, ConfigDefault(h), ok) ]

ConfigLoad(file, h, ok) ==
    LET read == ReadConfig(file)
    IN  IF read # Nothing
        THEN [ config |-> Unwrap(read), file |-> file ]
        ELSE [ config |-> ConfigDefault(h),
               file |-> ConfigStore(file, ConfigDefault(h), ok) ]

\* The test of lib.rs:204.
ProtocolNeverMismatches(config) == FALSE

ProtocolMismatch(config) == config.protocol_id # protocol_id

\* lib.rs:204-207: the config alvr_initialize loads and the file it
\* leaves.
InitializeConfig(file, h, ok) ==
    LET loaded == ConfigLoad(file, h, ok)
    IN  IF ProtocolMismatch(loaded.config)
        THEN [ loaded EXCEPT
                 !.file = ConfigStore(loaded.file, ConfigDefault(h), ok) ]
        ELSE loaded

\* Notify::notify_waiters (lib.rs:257): wakes the notified() futures that
\* are registered, and stores no permit.
NotifyOne(registered, notified) == TRUE

NotifyWaiters(registered, notified) == notified \/ registered

\* drop(RUNTIME.lock().take()) (lib.rs:260): the runtime shuts down and
\* drops every task it holds.
TaskAfterNotifyOnly(task, notified) ==
    IF task = "running" /\ notified THEN "done" ELSE task

TaskAfterRuntimeDrop(task, notified) ==
    IF task \in LiveTask THEN "done" ELSE task

\* VecDeque::pop_front (lib.rs:298).
PopBack(queue) ==
    [ event |-> queue[Len(queue)], rest |-> SubSeq(queue, 1, Len(queue) - 1) ]

PopFront(queue) == [ event |-> Head(queue), rest |-> Tail(queue) ]

\* `if let Some(..) = &*SLOT.lock()` (lib.rs:494, 503, 528).
IsSome(slot) == slot # Nothing

\* The same test on a sender slot (lib.rs:320, 345, 358, 415, 456, 507,
\* 520).
SenderAssumed(slot) == TRUE

HasSender(slot) == IsSome(slot)

\* StatisticsManager: a ring of the last MaxSamples total pipeline
\* latencies and the decode mark of the current frame.
NewStatisticsManager == [ samples |-> << >>, decoded |-> FALSE ]

ReportSubmit(stats, latency) ==
    LET all == Append(stats.samples, latency)
    IN  [ stats EXCEPT !.samples =
            IF Len(all) > MaxSamples THEN Tail(all) ELSE all ]

ReportFrameDecoded(stats) == [ stats EXCEPT !.decoded = TRUE ]

RECURSIVE SumOf(_)
SumOf(seq) == IF seq = << >> THEN 0 ELSE Head(seq) + SumOf(Tail(seq))

AverageTotalPipelineLatency(stats) ==
    IF stats.samples = << >>
    THEN 0
    ELSE SumOf(stats.samples) \div Len(stats.samples)

\* alvr_get_prediction_offset_ns (lib.rs:493-499).
PredictionOffsetOfLastFrame(stats) ==
    IF IsSome(stats)
    THEN AverageTotalPipelineLatency(Unwrap(stats))
    ELSE 8000000

GetPredictionOffsetNs(stats) ==
    IF IsSome(stats)
    THEN AverageTotalPipelineLatency(Unwrap(stats))
    ELSE 0

\* What the host got back from a call; the bool of the C ABI is 1 (true)
\* or 0 (false).
Returned(fn, value) == [ fn |-> fn, value |-> value ]

\* The state of a client process in which no API call has been made yet.
ClientInit ==
    /\ StreamingOff
    /\ RUNTIME = None
    /\ task_pc = "none"
    /\ task_notified = FALSE
    /\ destroy_pc = "idle"
    /\ TRACKING_SENDER = Nothing
    /\ STATISTICS_SENDER = Nothing
    /\ CONTROL_CHANNEL_SENDER = Nothing
    /\ CLIENT_STATISTICS_MANAGER = Nothing
    /\ EVENT_QUEUE = << >>
    /\ IS_RESUMED = FALSE
    /\ IS_STREAMING = FALSE
    /\ config_file \in { NoFile, CorruptFile }
          \cup { FileOf([ protocol_id |-> p, hostname |-> h ]) :
                   p \in ProtocolIds, h \in ClientHostnames }
    /\ out_event = 0
    /\ ret = Returned("none", 0)
    /\ enqueued = << >>
    /\ delivered = << >>
    /\ channel_sent = { }
    /\ hostname_obtained = Nothing
    /\ destroyed = FALSE
    /\ ServerOff
    /\ NegOff

senderVars == << TRACKING_SENDER, STATISTICS_SENDER, CONTROL_CHANNEL_SENDER,
                 CLIENT_STATISTICS_MANAGER, IS_STREAMING >>
streamVars == << senderVars, channel_sent >>
eventVars == << EVENT_QUEUE, out_event, enqueued, delivered >>
runtimeVars == << RUNTIME, task_pc, task_notified, destroy_pc >>
storageVars == << config_file, hostname_obtained >>

\* The connection of the task is dropped: the stream ends, its slots are
\* emptied and its channels are gone.
ConnectionDropped ==
    /\ channel_sent' = { }
    /\ TRACKING_SENDER' = Nothing
    /\ STATISTICS_SENDER' = Nothing
    /\ CONTROL_CHANNEL_SENDER' = Nothing
    /\ CLIENT_STATISTICS_MANAGER' = Nothing
    /\ IS_STREAMING' = FALSE

\* UnboundedSender::send on the channel of a slot.
ChannelSend(channel) ==
    channel_sent' = channel_sent \cup { channel }

PushEvent ==
    /\ Len(enqueued) < MaxEvents
    /\ EVENT_QUEUE' = Append(EVENT_QUEUE, Len(enqueued) + 1)
    /\ enqueued' = Append(enqueued, Len(enqueued) + 1)
    /\ UNCHANGED << out_event, delivered >>

\* ------------------------------------------------------------- client API
\* alvr_initialize (lib.rs:173-253): the config is loaded and reset on a
\* protocol mismatch, the runtime is created, the task is spawned and the
\* runtime is put into RUNTIME; a runtime that was in the slot is dropped.
\* h is the hostname Config::default draws, ok the outcome of fs::write.
AlvrInitialize(h, ok) ==
    /\ destroy_pc = "idle"
    /\ RUNTIME' = "Runtime"
    /\ task_pc' = "spawned"
    /\ task_notified' = FALSE
    /\ IF task_pc \in LiveTask
       THEN ConnectionDropped
       ELSE UNCHANGED streamVars
    /\ UNCHANGED ret
    /\ destroyed' = FALSE
    /\ UNCHANGED << destroy_pc, eventVars, IS_RESUMED, serverVars, negVars, streamingVars >>
    /\ LET initialized == InitializeConfig(config_file, h, ok)
       IN  /\ hostname_obtained' = Some(initialized.config.hostname)
           /\ config_file' = initialized.file

\* alvr_destroy, lib.rs:257: ON_DESTROY_NOTIFIER.notify_waiters().
AlvrDestroyNotify ==
    /\ destroy_pc = "idle"
    /\ destroy_pc' = "notified"
    /\ task_notified' = NotifyWaiters(task_pc = "running", task_notified)
    /\ UNCHANGED destroyed
    /\ UNCHANGED << RUNTIME, task_pc, streamVars, eventVars, IS_RESUMED,
                    storageVars, ret, serverVars, negVars, streamingVars >>

\* alvr_destroy, lib.rs:260-266: the runtime is taken out of the slot and
\* dropped, and the call returns.
AlvrDestroyDropRuntime ==
    /\ destroy_pc = "notified"
    /\ destroy_pc' = "idle"
    /\ RUNTIME' = None
    /\ task_pc' = TaskAfterRuntimeDrop(task_pc, task_notified)
    /\ task_notified' = (task_notified /\ task_pc' \in LiveTask)
    /\ IF task_pc \in LiveTask /\ task_pc' \notin LiveTask
       THEN ConnectionDropped
       ELSE UNCHANGED streamVars
    /\ UNCHANGED ret
    /\ destroyed' = TRUE
    /\ UNCHANGED << eventVars, IS_RESUMED, storageVars, serverVars, negVars, streamingVars >>

\* alvr_resume (lib.rs:270-283).
AlvrResume ==
    /\ destroy_pc = "idle"
    /\ IS_RESUMED' = TRUE
    /\ UNCHANGED ret
    /\ destroyed' = FALSE
    /\ UNCHANGED << runtimeVars, streamVars, eventVars, storageVars,
                    serverVars, negVars, streamingVars >>

\* alvr_pause (lib.rs:286-293).
AlvrPause ==
    /\ destroy_pc = "idle"
    /\ IS_RESUMED' = FALSE
    /\ UNCHANGED ret
    /\ destroyed' = FALSE
    /\ UNCHANGED << runtimeVars, streamVars, eventVars, storageVars,
                    serverVars, negVars, streamingVars >>

\* alvr_poll_event (lib.rs:297-305).
AlvrPollEvent ==
    /\ destroy_pc = "idle"
    /\ IF EVENT_QUEUE # << >>
       THEN LET popped == PopFront(EVENT_QUEUE)
            IN  /\ EVENT_QUEUE' = popped.rest
                /\ out_event' = popped.event
                /\ delivered' = Append(delivered, popped.event)
                /\ ret' = Returned("alvr_poll_event", 1)
       ELSE /\ ret' = Returned("alvr_poll_event", 0)
            /\ UNCHANGED << EVENT_QUEUE, out_event, delivered >>
    /\ destroyed' = FALSE
    /\ UNCHANGED << runtimeVars, streamVars, IS_RESUMED, storageVars,
                    enqueued, serverVars, negVars, streamingVars >>

\* The calls that put one packet into the control channel
\* (lib.rs:318-363, 414-426, 519-523).
ControlCalls ==
    { "alvr_send_views_config", "alvr_send_battery", "alvr_send_playspace",
      "alvr_send_button", "alvr_request_idr" }

AlvrSendControl(fn) ==
    /\ destroy_pc = "idle"
    /\ IF HasSender(CONTROL_CHANNEL_SENDER)
       THEN ChannelSend("control")
       ELSE UNCHANGED channel_sent
    /\ UNCHANGED ret
    /\ destroyed' = FALSE
    /\ UNCHANGED << runtimeVars, senderVars, eventVars, IS_RESUMED,
                    storageVars, serverVars, negVars, streamingVars >>

\* alvr_send_tracking (lib.rs:429-490).
AlvrSendTracking ==
    /\ destroy_pc = "idle"
    /\ IF HasSender(TRACKING_SENDER)
       THEN ChannelSend("tracking")
       ELSE UNCHANGED channel_sent
    /\ UNCHANGED ret
    /\ destroyed' = FALSE
    /\ UNCHANGED << runtimeVars, senderVars, eventVars, IS_RESUMED,
                    storageVars, serverVars, negVars, streamingVars >>

\* alvr_get_prediction_offset_ns (lib.rs:493-499).
AlvrGetPredictionOffsetNs ==
    /\ destroy_pc = "idle"
    /\ ret' = Returned("alvr_get_prediction_offset_ns",
                       GetPredictionOffsetNs(CLIENT_STATISTICS_MANAGER))
    /\ destroyed' = FALSE
    /\ UNCHANGED << runtimeVars, streamVars, eventVars, IS_RESUMED,
                    storageVars, serverVars, negVars, streamingVars >>

\* alvr_report_submit (lib.rs:502-515): latency is the total pipeline
\* latency of the frame, ready whether summary() has a summary for it.
AlvrReportSubmit(latency, ready) ==
    /\ destroy_pc = "idle"
    /\ IF IsSome(CLIENT_STATISTICS_MANAGER)
       THEN /\ CLIENT_STATISTICS_MANAGER' =
                 Some(ReportSubmit(Unwrap(CLIENT_STATISTICS_MANAGER), latency))
            /\ IF HasSender(STATISTICS_SENDER) /\ ready
               THEN ChannelSend("statistics")
               ELSE UNCHANGED channel_sent
       ELSE UNCHANGED << CLIENT_STATISTICS_MANAGER, channel_sent >>
    /\ UNCHANGED ret
    /\ destroyed' = FALSE
    /\ UNCHANGED << runtimeVars, TRACKING_SENDER, STATISTICS_SENDER,
                    CONTROL_CHANNEL_SENDER, IS_STREAMING, eventVars,
                    IS_RESUMED, storageVars, serverVars, negVars, streamingVars >>

\* alvr_report_frame_decoded (lib.rs:527-531).
AlvrReportFrameDecoded ==
    /\ destroy_pc = "idle"
    /\ CLIENT_STATISTICS_MANAGER' =
         IF IsSome(CLIENT_STATISTICS_MANAGER)
         THEN Some(ReportFrameDecoded(Unwrap(CLIENT_STATISTICS_MANAGER)))
         ELSE CLIENT_STATISTICS_MANAGER
    /\ UNCHANGED ret
    /\ destroyed' = FALSE
    /\ UNCHANGED << runtimeVars, TRACKING_SENDER, STATISTICS_SENDER,
                    CONTROL_CHANNEL_SENDER, IS_STREAMING, eventVars,
                    IS_RESUMED, storageVars, channel_sent, serverVars,
                    negVars, streamingVars >>

\* ------------------------------------------------------------- client task
\* The task spawned at lib.rs:243 is polled for the first time: its select
\* registers notified() and starts connection_lifecycle_loop.
TaskStart ==
    /\ task_pc = "spawned"
    /\ task_pc' = "running"
    /\ UNCHANGED destroyed
    /\ UNCHANGED << RUNTIME, task_notified, destroy_pc, streamVars,
                    eventVars, IS_RESUMED, storageVars, ret, serverVars, negVars, streamingVars >>

\* The select of lib.rs:246-249 takes the notified() branch: the task ends
\* and drops the connection loop.
TaskNotified ==
    /\ task_pc = "running"
    /\ task_notified
    /\ task_pc' = "done"
    /\ task_notified' = FALSE
    /\ ConnectionDropped
    /\ UNCHANGED destroyed
    /\ UNCHANGED << RUNTIME, destroy_pc, eventVars, IS_RESUMED, storageVars,
                    ret, serverVars, negVars, streamingVars >>

\* The connection loop reads the hostname to broadcast: Config::load
\* (storage.rs:46-63).
TaskConfigLoad(h, ok) ==
    /\ task_pc = "running"
    /\ UNCHANGED destroyed
    /\ UNCHANGED << runtimeVars, streamVars, eventVars, IS_RESUMED, ret,
                    serverVars, negVars, streamingVars >>
    /\ LET loaded == ConfigLoad(config_file, h, ok)
       IN  /\ hostname_obtained' = Some(loaded.config.hostname)
           /\ config_file' = loaded.file

\* The connection loop starts streaming: it fills the slots, installs a
\* new StatisticsManager and queues StreamingStarted.
TaskStreamStart ==
    /\ task_pc = "running"
    /\ ~IS_STREAMING
    /\ TRACKING_SENDER' = Some("Sender")
    /\ STATISTICS_SENDER' = Some("Sender")
    /\ CONTROL_CHANNEL_SENDER' = Some("Sender")
    /\ CLIENT_STATISTICS_MANAGER' = Some(NewStatisticsManager)
    /\ IS_STREAMING' = TRUE
    /\ PushEvent
    /\ UNCHANGED destroyed
    /\ UNCHANGED << runtimeVars, IS_RESUMED, storageVars, ret, channel_sent,
                    serverVars, negVars, streamingVars >>

\* The connection loop queues an event of the stream (Haptics,
\* CreateDecoder, NalReady).
TaskStreamEvent ==
    /\ task_pc = "running"
    /\ IS_STREAMING
    /\ PushEvent
    /\ UNCHANGED destroyed
    /\ UNCHANGED << runtimeVars, streamVars, IS_RESUMED, storageVars, ret,
                    serverVars, negVars, streamingVars >>

\* The stream ends (server lost or restarting): the slots are emptied and
\* StreamingStopped is queued.
TaskStreamStop ==
    /\ task_pc = "running"
    /\ IS_STREAMING
    /\ ConnectionDropped
    /\ PushEvent
    /\ UNCHANGED destroyed
    /\ UNCHANGED << runtimeVars, IS_RESUMED, storageVars, ret, serverVars, negVars, streamingVars >>

\* The config file is deleted or damaged from outside the client.
ConfigFileLost(file) ==
    /\ config_file # file
    /\ config_file' = file
    /\ UNCHANGED destroyed
    /\ UNCHANGED << runtimeVars, streamVars, eventVars, IS_RESUMED,
                    hostname_obtained, ret, serverVars,
                    negVars, streamingVars >>

\* The client process ends and is started again: the statics are those of
\* a new process, the config file stays.
ProcessRestart ==
    /\ RUNTIME' = None
    /\ task_pc' = "none"
    /\ task_notified' = FALSE
    /\ destroy_pc' = "idle"
    /\ ConnectionDropped
    /\ EVENT_QUEUE' = << >>
    /\ IS_RESUMED' = FALSE
    /\ out_event' = 0
    /\ ret' = Returned("none", 0)
    /\ enqueued' = << >>
    /\ delivered' = << >>
    /\ hostname_obtained' = Nothing
    /\ destroyed' = FALSE
    /\ UNCHANGED << config_file, serverVars, negVars, streamingVars >>

ClientNext ==
    \/ \E h \in ClientHostnames, ok \in BOOLEAN : AlvrInitialize(h, ok)
    \/ AlvrDestroyNotify
    \/ AlvrDestroyDropRuntime
    \/ AlvrResume
    \/ AlvrPause
    \/ AlvrPollEvent
    \/ \E fn \in ControlCalls : AlvrSendControl(fn)
    \/ AlvrSendTracking
    \/ AlvrGetPredictionOffsetNs
    \/ \E latency \in Latencies, ready \in BOOLEAN :
          AlvrReportSubmit(latency, ready)
    \/ AlvrReportFrameDecoded
    \/ TaskStart
    \/ TaskNotified
    \/ \E h \in ClientHostnames, ok \in BOOLEAN : TaskConfigLoad(h, ok)
    \/ TaskStreamStart
    \/ TaskStreamEvent
    \/ TaskStreamStop
    \/ \E file \in { NoFile, CorruptFile } : ConfigFileLost(file)
    \/ ProcessRestart

ClientSpec == ClientInit /\ [][ClientNext]_vars

\* ------------------------------------------------------------- storage
\* Config::store and Config::load (client_core/src/storage.rs) taken alone,
\* for the configs a caller can build (the fields of Config are pub) and
\* the files that can be found at config_path().
StoredProtocolIds == ProtocolIds \cup { 0, 305 }
StoredHostnames ==
    ClientHostnames
       \cup { << >>, << "a", Quote, "b" >>, << Backslash, Quote >>,
              << "n", Backslash >> }
Configs == [ protocol_id : StoredProtocolIds, hostname : StoredHostnames ]

\* Texts that are not the JSON of a Config: cut off, another signature, a
\* number JSON does not allow, characters after the object.
UnparsableTexts ==
    { << >>,
      << "{\"hostname\":" >>,
      << ProtocolIdKey, "7" >>,
      << ProtocolIdKey, "0", "7", HostnameKey, Quote, Quote, "}" >>,
      << ProtocolIdKey, "7", HostnameKey, Quote, "a", Quote, "b", Quote, "}" >>,
      << ProtocolIdKey, "7", HostnameKey, Quote, Backslash, Quote, "}" >>,
      << ProtocolIdKey, "7", HostnameKey, Quote, Quote, "}", "}" >> }

StorageInit ==
    /\ StreamingOff
    /\ RUNTIME = None
    /\ task_pc = "none"
    /\ task_notified = FALSE
    /\ destroy_pc = "idle"
    /\ TRACKING_SENDER = Nothing
    /\ STATISTICS_SENDER = Nothing
    /\ CONTROL_CHANNEL_SENDER = Nothing
    /\ CLIENT_STATISTICS_MANAGER = Nothing
    /\ EVENT_QUEUE = << >>
    /\ IS_RESUMED = FALSE
    /\ IS_STREAMING = FALSE
    /\ config_file \in { NoFile } \cup { FileWith(t) : t \in UnparsableTexts }
    /\ out_event = 0
    /\ ret = Returned("none", Nothing)
    /\ enqueued = << >>
    /\ delivered = << >>
    /\ channel_sent = { }
    /\ hostname_obtained = Nothing
    /\ destroyed = FALSE
    /\ ServerOff
    /\ NegOff

\* config.store() (storage.rs:65-70); ok is the outcome of fs::write.
StorageStore(config, ok) ==
    /\ config_file' = ConfigStore(config_file, config, ok)
    /\ ret' = Returned("Config::store", Nothing)
    /\ UNCHANGED << runtimeVars, streamVars, eventVars, IS_RESUMED,
                    hostname_obtained, destroyed, serverVars, negVars, streamingVars >>

\* Config::load() (storage.rs:46-63); h is the hostname Config::default
\* draws, ok the outcome of the fs::write of its store().
StorageLoad(h, ok) ==
    /\ LET loaded == ConfigLoad(config_file, h, ok)
       IN  /\ config_file' = loaded.file
           /\ ret' = Returned("Config::load", Some(loaded.config))
           /\ hostname_obtained' = Some(loaded.config.hostname)
    /\ UNCHANGED << runtimeVars, streamVars, eventVars, IS_RESUMED,
                    destroyed, serverVars, negVars, streamingVars >>

StorageNext ==
    \/ \E config \in Configs, ok \in BOOLEAN : StorageStore(config, ok)
    \/ \E h \in ClientHostnames, ok \in BOOLEAN : StorageLoad(h, ok)
    \/ \E file \in { NoFile } \cup { FileWith(t) : t \in UnparsableTexts } :
          ConfigFileLost(file)

StorageSpec == StorageInit /\ [][StorageNext]_vars

\* ------------------------------------------------------------- streaming
\* The streaming phase of one connection, taken alone: the select of
\* connection.rs:1006 has started, tracking_receive_loop (761-865) and
\* control_loop (929-1002) receive what the client sends, the thread of
\* connection.rs:743 calls SetChaperone, and the select resolves as in Spec.

\* The inputs (Tracking frames and control packets) one connection receives.
MaxStreamInputs == 2

HEAD_ID == "/user/head"
LEFT_HAND_ID == "/user/hand/left"
RIGHT_HAND_ID == "/user/hand/right"

\* A DeviceMotion as the client sent it.
ClientMotion(id) == [ id |-> id, mapped |-> FALSE ]

TargetTimestamps == { 7, 9 }

DeviceMotionLists ==
    { << ClientMotion(HEAD_ID) >>,
      << ClientMotion(LEFT_HAND_ID), ClientMotion(HEAD_ID),
         ClientMotion(RIGHT_HAND_ID) >>,
      << ClientMotion(RIGHT_HAND_ID), ClientMotion(LEFT_HAND_ID) >> }

\* The Tracking headers alvr_send_tracking builds (lib.rs:481-486).
TrackingFrames ==
    [ target_timestamp : TargetTimestamps, device_motions : DeviceMotionLists ]

\* The smallest side of the play area, in decimetres, passed to the driver.
MinChaperoneSide == 20

\* Sides of a play area, in decimetres.
PlayspaceSides == { 5, 35 }

\* The packets control_loop tells apart (connection.rs:932-1000).
PlayspaceSync(x, y) == [ type |-> "PlayspaceSync", x |-> x, y |-> y ]
RequestIdr == [ type |-> "RequestIdr", x |-> 0, y |-> 0 ]

ClientControlPackets ==
    { PlayspaceSync(x, y) : x, y \in PlayspaceSides } \cup { RequestIdr }

\* A call into the driver.
DriverCall(fn, args, motions) == [ fn |-> fn, args |-> args, motions |-> motions ]

\* TrackingManager::map_head: the head motion is mapped and always kept.
map_head(motion) == [ motion EXCEPT !.mapped = TRUE ]

\* TrackingManager::map_controller: a controller motion is mapped, or
\* filtered out when the controllers are disabled or tracking is
\* reference-only.
map_controller(hs, motion) ==
    IF hs.controllers /\ ~hs.tracking_ref_only
    THEN Some([ motion EXCEPT !.mapped = TRUE ])
    ELSE Nothing

\* What the loop does with a controller motion map_controller filtered
\* out: it is not pushed (connection.rs:817-821).
KeepUnmapped(motion) == << motion >>

Filtered(motion) == << >>

\* The device_motions of connection.rs:812-823.
RECURSIVE MapDeviceMotions(_, _)
MapDeviceMotions(hs, motions) ==
    IF motions = << >>
    THEN << >>
    ELSE LET motion == Head(motions)
             rest == MapDeviceMotions(hs, Tail(motions))
         IN  IF motion.id = HEAD_ID
             THEN << map_head(motion) >> \o rest
             ELSE IF map_controller(hs, motion) # Nothing
                  THEN << Unwrap(map_controller(hs, motion)) >> \o rest
                  ELSE Filtered(motion) \o rest

\* The call of connection.rs:851-861 for one Tracking header.
SetTrackingCall(hs, tracking) ==
    LET raw_motions == MapDeviceMotions(hs, tracking.device_motions)
    IN  DriverCall("SetTracking",
                   << tracking.target_timestamp, Len(raw_motions) >>,
                   raw_motions)

\* f32::max of connection.rs:745-746.
F32Max(a, b) == IF a > b THEN a ELSE b

\* The call of the chaperone thread for one packet (connection.rs:745-747).
SetChaperoneUnclamped(packet) ==
    DriverCall("SetChaperone", << packet.x, packet.y >>, << >>)

SetChaperoneCall(packet) ==
    DriverCall("SetChaperone",
               << F32Max(packet.x, MinChaperoneSide),
                  F32Max(packet.y, MinChaperoneSide) >>,
               << >>)

DeinitializeStreamingCall == DriverCall("DeinitializeStreaming", << >>, << >>)

RequestIDRCall == DriverCall("RequestIDR", << >>, << >>)

InputsReceived == Len(frames_received) + Len(packets_received)

\* The state of the server when the select of connection.rs:1006 starts:
\* a discovered client is connected, the guard is alive, the loops exist.
StreamingStarted ==
    /\ settings = [ encode_bitrate_mbs |-> 30,
                    auto_trust_clients |-> TRUE,
                    client_discovery |-> TRUE,
                    on_connect_script |-> FALSE,
                    on_disconnect_script |-> FALSE ]
    /\ \E h \in Hostnames :
          /\ client_list = [ g \in Hostnames |->
                               IF g = h
                               THEN [ present |-> TRUE, trusted |-> FALSE,
                                      manual_ips |-> {} ]
                               ELSE AbsentClient ]
          /\ conn_client = IpOf(h)
    /\ openvr_config = NewOpenvrConfig(settings)
    /\ restart_requested = FALSE
    /\ restart_due = FALSE
    /\ lc_pc = "pipeline"
    /\ pc = "streaming"
    /\ trusted_discovered_client_id = None
    /\ discovery_running = FALSE
    /\ clients_updated = FALSE
    /\ hs_pc = "off"
    /\ hs_client_ips = {}
    /\ hs_client_ip = None
    /\ new_openvr_config = NoConfig
    /\ restarting_sent = "no"
    /\ setup_idx = 0
    /\ stream_guard = TRUE
    /\ ka_pc = "send"
    /\ peer_lost = FALSE
    /\ video_started = FALSE
    /\ haptics_started = FALSE
    /\ STATISTICS_MANAGER = "Some"
    /\ VIDEO_SENDER = None
    /\ HAPTICS_SENDER = None
    /\ min_delay = 0
    /\ sleep_timer = 0
    /\ hs_timer = 0
    /\ ka_timer = 0
    /\ since_start = RETRY_CONNECT_MIN_INTERVAL
    /\ since_return = 0
    /\ attempt = [ NoAttempt EXCEPT !.connected = 1, !.init = 1,
                                    !.loops_started = TRUE ]
    /\ last_result = None

\* connection.rs:738-750: the channel is created and, unless tracking is
\* reference-only, the thread is spawned.
StreamInit ==
    /\ NegOff
    /\ ClientOff
    /\ LocksOff
    /\ SendsOff
    /\ StatsOff
    /\ StreamingStarted
    /\ headset \in [ tracking_ref_only : BOOLEAN, controllers : BOOLEAN ]
    /\ playspace_sync_channel = << >>
    /\ playspace_sync_sender = TRUE
    /\ chaperone_pc = IF headset.tracking_ref_only THEN "none" ELSE "recv"
    /\ driver_calls = << >>
    /\ frames_received = << >>
    /\ packets_received = << >>

\* tracking_receive_loop: one iteration (connection.rs:809-863).  The task
\* exists as long as the select does.
TrackingReceive(tracking) ==
    /\ pc = "streaming"
    /\ ~peer_lost
    /\ InputsReceived < MaxStreamInputs
    /\ frames_received' = Append(frames_received, tracking)
    /\ driver_calls' = IF STATISTICS_MANAGER # None
                       THEN Append(driver_calls, SetTrackingCall(headset, tracking))
                       ELSE driver_calls
    /\ UNCHANGED << serverVars, headset, playspace_sync_channel,
                    playspace_sync_sender, chaperone_pc, packets_received >>

\* control_loop: one iteration with a packet (connection.rs:931-994).
ControlReceive(packet) ==
    /\ pc = "streaming"
    /\ ~peer_lost
    /\ InputsReceived < MaxStreamInputs
    /\ packets_received' = Append(packets_received, packet)
    /\ playspace_sync_channel' =
          IF packet.type = "PlayspaceSync" /\ ~headset.tracking_ref_only
          THEN Append(playspace_sync_channel, packet)
          ELSE playspace_sync_channel
    /\ driver_calls' = IF packet.type = "RequestIdr"
                       THEN Append(driver_calls, RequestIDRCall)
                       ELSE driver_calls
    /\ UNCHANGED << serverVars, headset, playspace_sync_sender, chaperone_pc,
                    frames_received >>

\* The thread of connection.rs:743-749: recv() returns a packet and
\* SetChaperone is called.  The thread is not a future of the select.
ChaperoneThreadCalls ==
    /\ chaperone_pc = "recv"
    /\ playspace_sync_channel # << >>
    /\ driver_calls' = Append(driver_calls,
                              SetChaperoneCall(Head(playspace_sync_channel)))
    /\ playspace_sync_channel' = Tail(playspace_sync_channel)
    /\ UNCHANGED << serverVars, headset, playspace_sync_sender, chaperone_pc,
                    frames_received, packets_received >>

\* The thread's recv() fails: the channel is empty and its sender dropped.
ChaperoneThreadExits ==
    /\ chaperone_pc = "recv"
    /\ playspace_sync_channel = << >>
    /\ ~playspace_sync_sender
    /\ chaperone_pc' = "exited"
    /\ UNCHANGED << serverVars, headset, playspace_sync_channel,
                    playspace_sync_sender, driver_calls, frames_received,
                    packets_received >>

\* The select resolves: its futures are dropped, control_loop and with it
\* the sender of the channel, and the spawned loops are cancelled.
FuturesDropped ==
    /\ playspace_sync_sender' = FALSE
    /\ UNCHANGED << headset, playspace_sync_channel, chaperone_pc,
                    frames_received, packets_received >>

\* connection_pipeline returns: StreamCloseGuard::drop calls
\* DeinitializeStreaming (connection.rs:453-472).
GuardDropped ==
    driver_calls' = IF stream_guard
                    THEN Append(driver_calls, DeinitializeStreamingCall)
                    ELSE driver_calls

StreamPeerLost ==
    /\ PeerLost
    /\ UNCHANGED streamingVars

StreamLoopEnds(loop, res) ==
    /\ LoopEnds(loop, res)
    /\ FuturesDropped
    /\ GuardDropped

StreamDisconnectClientNotified ==
    /\ DisconnectClientNotified
    /\ FuturesDropped
    /\ GuardDropped

StreamRestartNotified ==
    /\ RestartNotified
    /\ FuturesDropped
    /\ UNCHANGED driver_calls

StreamRestartSendDone(ok) ==
    /\ RestartSendDone(ok)
    /\ GuardDropped
    /\ UNCHANGED << headset, playspace_sync_channel, playspace_sync_sender,
                    chaperone_pc, frames_received, packets_received >>

StreamNext ==
    \/ \E tracking \in TrackingFrames : TrackingReceive(tracking)
          /\ UNCHANGED << negVars, clientVars, lockVars, sendVars, statsVars >>
    \/ \E packet \in ClientControlPackets : ControlReceive(packet)
          /\ UNCHANGED << negVars, clientVars, lockVars, sendVars, statsVars >>
    \/ ChaperoneThreadCalls /\ UNCHANGED << negVars, clientVars, lockVars, sendVars, statsVars >>
    \/ ChaperoneThreadExits /\ UNCHANGED << negVars, clientVars, lockVars, sendVars, statsVars >>
    \/ StreamPeerLost /\ UNCHANGED << negVars, clientVars, lockVars, sendVars, statsVars >>
    \/ \E loop \in EndingLoops, res \in { "Ok", "Err" } : StreamLoopEnds(loop, res)
          /\ UNCHANGED << negVars, clientVars, lockVars, sendVars, statsVars >>
    \/ StreamDisconnectClientNotified /\ UNCHANGED << negVars, clientVars, lockVars, sendVars, statsVars >>
    \/ StreamRestartNotified /\ UNCHANGED << negVars, clientVars, lockVars, sendVars, statsVars >>
    \/ \E ok \in BOOLEAN : StreamRestartSendDone(ok)
          /\ UNCHANGED << negVars, clientVars, lockVars, sendVars, statsVars >>

StreamSpec == StreamInit /\ [][StreamNext]_vars

\* Fairness of the thread of connection.rs:743: the OS schedules it, and a
\* call of SetChaperone returns.
StreamLiveSpec ==
    /\ StreamSpec
    /\ WF_vars(ChaperoneThreadCalls /\ UNCHANGED << negVars, clientVars, lockVars, sendVars, statsVars >>)

\* ------------------------------------------------------------- keepalive
\* keepalive_loop and the RESTART_NOTIFIER branch, taken alone and step by
\* step: the tokio Mutex around control_sender (connection.rs:889-895,
\* 1029-1034) and the read guards of SERVER_DATA_MANAGER (904-925).  The
\* select resolves as in Spec.

\* keepalive_loop is suspended at an await: only there does the task of
\* connection_pipeline poll the other branches of the select.
KeepaliveAtAwait == ka_step \in { "lock", "send", "sleep" }

\* SERVER_DATA_MANAGER.read() returns its guard at once: the lock does not
\* let a reader in while a writer holds it or waits for it.
CanRead == writer_pc = "idle"

\* The holder of the control_sender Mutex once the select has resolved:
\* the futures of the other branches, keepalive_loop with its guard, are
\* dropped before the handler of the branch runs (connection.rs:1006-1038).
HolderKeptAfterSelect(holder) == holder

HolderAfterSelect(holder) == None

\* The send futures left once the select has resolved.
SendsAfterSelect(holder, sends) ==
    IF HolderAfterSelect(holder) = None THEN {} ELSE sends

KeepaliveInit ==
    /\ NegOff
    /\ ClientOff
    /\ LoopsOff
    /\ SendsOff
    /\ StatsOff
    /\ StreamingStarted
    /\ ka_step = "lock"
    /\ control_sender = None
    /\ sends_in_flight = {}
    /\ restart_step = "off"
    /\ data_manager_readers = 0
    /\ writer_pc = "idle"

\* control_sender.lock().await (connection.rs:891-893).
KeepaliveLock ==
    /\ pc = "streaming"
    /\ ka_step = "lock"
    /\ control_sender = None
    /\ control_sender' = "keepalive_loop"
    /\ sends_in_flight' = sends_in_flight \cup { "KeepAlive" }
    /\ ka_step' = "send"
    /\ UNCHANGED << serverVars, restart_step, data_manager_readers, writer_pc >>

\* .send(&KeepAlive).await completes and the guard, a temporary of the
\* statement, is dropped (connection.rs:891-900).
KeepaliveSendDone(ok) ==
    /\ ka_step = "send"
    /\ KeepaliveSend(ok)
    /\ control_sender' = None
    /\ sends_in_flight' = sends_in_flight \ { "KeepAlive" }
    /\ ka_step' = IF ok THEN "sleep" ELSE "off"
    /\ UNCHANGED << restart_step, data_manager_readers, writer_pc >>

\* time::sleep(NETWORK_KEEPALIVE_INTERVAL) is over (connection.rs:901).
KeepaliveSleepDone ==
    /\ pc = "streaming"
    /\ ka_step = "sleep"
    /\ ka_timer = 0
    /\ ka_step' = "read"
    /\ UNCHANGED << serverVars, control_sender, sends_in_flight, restart_step,
                    data_manager_readers, writer_pc >>

\* let data_manager = SERVER_DATA_MANAGER.read() (connection.rs:904).
KeepaliveRead ==
    /\ pc = "streaming"
    /\ ka_step = "read"
    /\ CanRead
    /\ data_manager_readers' = data_manager_readers + 1
    /\ ka_step' = "read_again"
    /\ UNCHANGED << serverVars, control_sender, sends_in_flight, restart_step,
                    writer_pc >>

\* The second SERVER_DATA_MANAGER.read() (connection.rs:908-915), taken
\* while data_manager is alive; its guard is dropped after the if-let.
KeepaliveReadAgain ==
    /\ pc = "streaming"
    /\ ka_step = "read_again"
    /\ CanRead
    /\ ka_step' = "call"
    /\ UNCHANGED << serverVars, control_sender, sends_in_flight, restart_step,
                    data_manager_readers, writer_pc >>

\* SetBitrateParameters is called, data_manager is dropped at the end of
\* the iteration and the loop starts over (connection.rs:917-925).
KeepaliveSetBitrateParameters ==
    /\ ka_step = "call"
    /\ KeepaliveWake
    /\ data_manager_readers' = data_manager_readers - 1
    /\ ka_step' = "lock"
    /\ UNCHANGED << control_sender, sends_in_flight, restart_step, writer_pc >>

\* Another thread (the dashboard's request handler) calls
\* SERVER_DATA_MANAGER.write().
WriterRequests ==
    /\ writer_pc = "idle"
    /\ writer_pc' = "waiting"
    /\ UNCHANGED << serverVars, ka_step, control_sender, sends_in_flight,
                    restart_step, data_manager_readers >>

\* The write guard is granted when no read guard is left.
WriterAcquires ==
    /\ writer_pc = "waiting"
    /\ data_manager_readers = 0
    /\ writer_pc' = "writing"
    /\ UNCHANGED << serverVars, ka_step, control_sender, sends_in_flight,
                    restart_step, data_manager_readers >>

\* The writer stores the new bitrate and drops its guard.
WriterReleases(b) ==
    /\ writer_pc = "writing"
    /\ UiSetBitrate(b)
    /\ writer_pc' = "idle"
    /\ UNCHANGED << ka_step, control_sender, sends_in_flight, restart_step,
                    data_manager_readers >>

KeepaliveTick ==
    /\ Tick
    /\ UNCHANGED lockVars

KeepalivePeerLost ==
    /\ PeerLost
    /\ UNCHANGED lockVars

\* RESTART_NOTIFIER wins the select: the other futures are dropped and the
\* handler starts at control_sender.lock().await (connection.rs:1028-1031).
KeepaliveRestartNotified ==
    /\ KeepaliveAtAwait
    /\ RestartNotified
    /\ ka_step' = "off"
    /\ control_sender' = HolderAfterSelect(control_sender)
    /\ sends_in_flight' = SendsAfterSelect(control_sender, sends_in_flight)
    /\ restart_step' = "lock"
    /\ UNCHANGED << data_manager_readers, writer_pc >>

\* The handler's control_sender.lock().await (connection.rs:1029-1031).
RestartLock ==
    /\ pc = "restart_send"
    /\ restart_step = "lock"
    /\ control_sender = None
    /\ control_sender' = "RESTART_NOTIFIER"
    /\ sends_in_flight' = sends_in_flight \cup { "Restarting" }
    /\ restart_step' = "send"
    /\ UNCHANGED << serverVars, ka_step, data_manager_readers, writer_pc >>

\* The handler's .send(&Restarting).await.ok() (connection.rs:1032-1036).
KeepaliveRestartSendDone(ok) ==
    /\ restart_step = "send"
    /\ RestartSendDone(ok)
    /\ control_sender' = None
    /\ sends_in_flight' = sends_in_flight \ { "Restarting" }
    /\ restart_step' = "off"
    /\ UNCHANGED << ka_step, data_manager_readers, writer_pc >>

\* DISCONNECT_CLIENT_NOTIFIER wins the select (connection.rs:1027).
KeepaliveDisconnectClientNotified ==
    /\ KeepaliveAtAwait
    /\ DisconnectClientNotified
    /\ ka_step' = "off"
    /\ control_sender' = HolderAfterSelect(control_sender)
    /\ sends_in_flight' = SendsAfterSelect(control_sender, sends_in_flight)
    /\ UNCHANGED << restart_step, data_manager_readers, writer_pc >>

KeepaliveNext ==
    \/ KeepaliveLock /\ UNCHANGED << negVars, clientVars, loopVars, sendVars, statsVars >>
    \/ \E ok \in BOOLEAN : KeepaliveSendDone(ok)
          /\ UNCHANGED << negVars, clientVars, loopVars, sendVars, statsVars >>
    \/ KeepaliveSleepDone /\ UNCHANGED << negVars, clientVars, loopVars, sendVars, statsVars >>
    \/ KeepaliveRead /\ UNCHANGED << negVars, clientVars, loopVars, sendVars, statsVars >>
    \/ KeepaliveReadAgain /\ UNCHANGED << negVars, clientVars, loopVars, sendVars, statsVars >>
    \/ KeepaliveSetBitrateParameters /\ UNCHANGED << negVars, clientVars, loopVars, sendVars, statsVars >>
    \/ WriterRequests /\ UNCHANGED << negVars, clientVars, loopVars, sendVars, statsVars >>
    \/ WriterAcquires /\ UNCHANGED << negVars, clientVars, loopVars, sendVars, statsVars >>
    \/ \E b \in Bitrates : WriterReleases(b)
          /\ UNCHANGED << negVars, clientVars, loopVars, sendVars, statsVars >>
    \/ KeepaliveTick /\ UNCHANGED << negVars, clientVars, loopVars, sendVars, statsVars >>
    \/ KeepalivePeerLost /\ UNCHANGED << negVars, clientVars, loopVars, sendVars, statsVars >>
    \/ KeepaliveRestartNotified /\ UNCHANGED << negVars, clientVars, loopVars, sendVars, statsVars >>
    \/ RestartLock /\ UNCHANGED << negVars, clientVars, loopVars, sendVars, statsVars >>
    \/ \E ok \in BOOLEAN : KeepaliveRestartSendDone(ok)
          /\ UNCHANGED << negVars, clientVars, loopVars, sendVars, statsVars >>
    \/ KeepaliveDisconnectClientNotified
          /\ UNCHANGED << negVars, clientVars, loopVars, sendVars, statsVars >>

KeepaliveSpec == KeepaliveInit /\ [][KeepaliveNext]_vars

\* Fairness of the handler: the task of connection_pipeline is polled when
\* the Mutex is free.
KeepaliveLiveSpec ==
    /\ KeepaliveSpec
    /\ WF_vars(RestartLock /\ UNCHANGED << negVars, clientVars, loopVars, sendVars, statsVars >>)

\* ------------------------------------------------------------- sending
\* video_send_loop and haptics_send_loop, taken alone and record by record
\* (connection.rs:705-736).  The select resolves as in Spec.
MaxRecords == 2

Streams == { "VIDEO", "HAPTICS" }

SendLoopOf(stream) ==
    IF stream = "VIDEO" THEN "video_send_loop" ELSE "haptics_send_loop"

SendLoopStarted(stream) ==
    IF stream = "VIDEO" THEN video_started ELSE haptics_started

\* VIDEO_SENDER, HAPTICS_SENDER: the sending half the loop has published.
SenderOf(stream) ==
    IF stream = "VIDEO" THEN VIDEO_SENDER ELSE HAPTICS_SENDER

SendInit ==
    /\ NegOff
    /\ ClientOff
    /\ LoopsOff
    /\ LocksOff
    /\ StatsOff
    /\ StreamingStarted
    /\ records_put = [ stream \in Streams |-> 0 ]
    /\ send_channel = [ stream \in Streams |-> << >> ]
    /\ send_log = [ stream \in Streams |-> << >> ]

SendLoopStart(stream) ==
    /\ IF stream = "VIDEO" THEN VideoSendLoopStart ELSE HapticsSendLoopStart
    /\ UNCHANGED streamingVars

\* The driver puts a record into the unbounded channel through the
\* published sender.  Records are numbered in the order they are put.
RecordPut(stream) ==
    /\ pc = "streaming"
    /\ SenderOf(stream) = "Some"
    /\ records_put[stream] < MaxRecords
    /\ records_put' = [ records_put EXCEPT ![stream] = @ + 1 ]
    /\ send_channel' = [ send_channel EXCEPT
                            ![stream] = Append(@, records_put[stream] + 1) ]
    /\ UNCHANGED << serverVars, loopVars, lockVars, send_log >>

\* The receivers of the channels are dropped with the futures of the select.
ChannelsDropped ==
    /\ send_channel' = [ stream \in Streams |-> << >> ]
    /\ UNCHANGED << loopVars, lockVars, records_put, send_log >>

\* One iteration of `while let Some(..) = data_receiver.recv().await`
\* (connection.rs:711-715, 727-732): new_buffer(..)? ends the loop with its
\* error; the result of send_buffer(..).await is discarded with .ok().
SendLoopIteration(stream, buffer_ok, send_ok) ==
    /\ pc = "streaming"
    /\ SendLoopStarted(stream)
    /\ send_channel[stream] # << >>
    /\ IF buffer_ok
       THEN /\ send_ok \/ peer_lost
            /\ send_channel' = [ send_channel EXCEPT ![stream] = Tail(@) ]
            /\ send_log' = [ send_log EXCEPT
                                ![stream] = Append(@,
                                    [ record |-> Head(send_channel[stream]),
                                      result |-> IF send_ok THEN "Ok" ELSE "Err" ]) ]
            /\ UNCHANGED << serverVars, loopVars, lockVars, records_put >>
       ELSE /\ send_ok
            /\ LoopEnds(SendLoopOf(stream), "Err")
            /\ ChannelsDropped

SendPeerLost ==
    /\ PeerLost
    /\ UNCHANGED streamingVars

\* Another loop of the select ends.
SendOtherLoopEnds(loop, res) ==
    /\ loop \notin { SendLoopOf(stream) : stream \in Streams }
    /\ LoopEnds(loop, res)
    /\ ChannelsDropped

SendDisconnectClientNotified ==
    /\ DisconnectClientNotified
    /\ ChannelsDropped

SendNext ==
    \/ \E stream \in Streams : SendLoopStart(stream)
          /\ UNCHANGED << negVars, clientVars, statsVars >>
    \/ \E stream \in Streams : RecordPut(stream)
          /\ UNCHANGED << negVars, clientVars, statsVars >>
    \/ \E stream \in Streams, buffer_ok, send_ok \in BOOLEAN :
          SendLoopIteration(stream, buffer_ok, send_ok)
          /\ UNCHANGED << negVars, clientVars, statsVars >>
    \/ SendPeerLost /\ UNCHANGED << negVars, clientVars, statsVars >>
    \/ \E loop \in EndingLoops, res \in { "Ok", "Err" } : SendOtherLoopEnds(loop, res)
          /\ UNCHANGED << negVars, clientVars, statsVars >>
    \/ SendDisconnectClientNotified /\ UNCHANGED << negVars, clientVars, statsVars >>

SendSpec == SendInit /\ [][SendNext]_vars

\* ------------------------------------------------------------- statistics
\* The lifecycle of Spec together with statistics_receive_loop
\* (connection.rs:867-885), over the connections of a process.

\* client_stats.average_total_pipeline_latency of the records a client
\* sends, in milliseconds.
AverageLatencies == { 10, 20 }

\* statistics_receive_loop: one iteration with a record (connection.rs:873-874).
StatisticsReceive(latency) ==
    /\ pc = "streaming"
    /\ ~peer_lost
    /\ LAST_AVERAGE_TOTAL_LATENCY' = latency
    /\ UNCHANGED << serverVars, loopVars, lockVars, sendVars >>

\* The driver restarts: the process ends and a new one starts, its statics
\* initialized anew.
LatencyDriverRestart ==
    /\ DriverRestart
    /\ LAST_AVERAGE_TOTAL_LATENCY' = 0
    /\ UNCHANGED << loopVars, lockVars, sendVars >>

LatencyNext ==
    \/ Next /\ ~DriverRestart
    \/ LatencyDriverRestart /\ UNCHANGED << negVars, clientVars >>
    \/ \E latency \in AverageLatencies : StatisticsReceive(latency)
          /\ UNCHANGED << negVars, clientVars >>

LatencySpec == Init /\ [][LatencyNext]_vars

\* ------------------------------------------------------------- properties
\* Positions of connection_pipeline at which it holds a ConnectionInfo.
PostHandshake ==
    { "start_stream", "wait_ack", "stream_socket", "setup", "streaming",
      "restart_send" }

\* Positions after the code of connection.rs:573-594 ran.
GuardInstalled == { "setup", "streaming", "restart_send" }

\* C1: on a connection for which InitializeStreaming was called and the
\* guard installed, DeinitializeStreaming is called exactly once and the
\* disconnect script (when configured) is spawned exactly once, whatever
\* ended the connection: none before the guard is dropped, one of each
\* after connection_pipeline returned.
C1_GuardRunsOnce ==
    /\ attempt.init <= 1
    /\ (pc \in GuardInstalled) = stream_guard
    /\ stream_guard =>
         attempt.init = 1 /\ attempt.deinit = 0 /\ attempt.script = 0
    /\ ~stream_guard =>
         /\ attempt.deinit = attempt.init
         /\ attempt.script =
              IF settings.on_disconnect_script THEN attempt.init ELSE 0

\* C1 witness: a connection ended by RESTART_NOTIFIER, deinitialized once
\* and its disconnect script spawned once.
C1_Witness ==
    /\ pc = "idle"
    /\ attempt.ended_by = "RESTART_NOTIFIER"
    /\ attempt.init = 1
    /\ attempt.deinit = 1
    /\ attempt.script = 1

\* C2 (as claimed): once a handshake found the OpenvrConfig changed, no
\* handshake returns a ConnectionInfo and the pipeline reaches neither
\* ClientConnected nor InitializeStreaming before the driver restarted.
C2_NoStreamBeforeRestart ==
    restart_due => (pc \notin PostHandshake /\ conn_client = None)

\* C3: a handshake whose OpenvrConfig differs from the persisted one
\* persists it before it starts to send Restarting; when that send has
\* completed, with or without error, the restart is triggered and the
\* handshake suspends; the restart is triggered by nothing but that step;
\* and the suspended handshake never hands a ConnectionInfo to the pipeline.
C3_Step ==
    /\ ((hs_pc = "send_config" /\ hs_pc' = "send_restarting") =>
          /\ openvr_config # new_openvr_config
          /\ openvr_config' = new_openvr_config
          /\ restarting_sent' = "no")
    /\ ((hs_pc = "send_restarting" /\ restarting_sent' # "no") =>
          /\ restarting_sent = "no"
          /\ openvr_config = new_openvr_config
          /\ restart_requested'
          /\ hs_pc' = "pending"
          /\ pc' = "connect"
          /\ conn_client' = None)
    /\ ((~restart_requested /\ restart_requested') =>
          /\ hs_pc = "send_restarting"
          /\ restarting_sent' \in { "sent", "failed" })
    /\ (hs_pc = "pending" =>
          /\ conn_client' = None
          /\ pc' \notin PostHandshake
          /\ hs_pc' \in { "pending", "off", "connecting" })

C4_Step ==
    /\ ((pc = "connect" /\ hs_pc = "send_config"
           /\ openvr_config = new_openvr_config) =>
          /\ openvr_config' = openvr_config
          /\ (restart_requested' => restart_requested)
          /\ restarting_sent' = "no"
          /\ hs_pc' \notin { "send_restarting", "pending" }
          /\ ((hs_pc' = "off" /\ pc' \notin { "idle", "cleanup_pause" }) =>
                pc' = "start_stream" /\ conn_client' = hs_client_ip))
    /\ (pc' \in PostHandshake \ { "restart_send" } =>
          restarting_sent' = "no" /\ conn_client' # None)
    /\ ((pc = "wait_ack" /\ pc' \in PostHandshake \ { "wait_ack" }) =>
          pc' = "stream_socket")
    /\ ((pc = "stream_socket" /\ pc' \in PostHandshake \ { "stream_socket" }) =>
          pc' = "setup" /\ attempt'.connected = 1)
    /\ (pc' \in GuardInstalled => attempt'.connected = 1)

C4_UnchangedConfigConnects == [][C4_Step]_vars

\* C4 witness: ClientConnected was emitted on a connection whose handshake
\* found the config unchanged: nothing persisted, no restart, no Restarting.
C4_Witness ==
    /\ pc = "setup"
    /\ attempt.connected = 1
    /\ restarting_sent = "no"
    /\ ~restart_requested
    /\ ~restart_due

\* The loops that observe the loss of the peer.
PeerLossObservers ==
    { "receive_loop", "keepalive_loop", "control_loop",
      "tracking_receive_loop", "statistics_receive_loop" }

\* C5 (as claimed): when the peer was lost and one of the loops that
\* observe it ended the connection, ClientDisconnected was emitted exactly
\* once for that connection.
C5_DisconnectedOnce ==
    (pc = "idle" /\ peer_lost /\ attempt.ended_by \in PeerLossObservers) =>
        attempt.disconnected = 1

\* C6 (as claimed): after a connection whose stream loops were started has
\* been torn down, the slots are empty again.
C6_SlotsCleared ==
    (pc = "idle" /\ attempt.loops_started) =>
        /\ STATISTICS_MANAGER = None
        /\ VIDEO_SENDER = None
        /\ HAPTICS_SENDER = None

\* C7: whenever connection_pipeline has returned, with Ok or Err, the
\* lifecycle loop eventually starts the next attempt.
C7_LoopGoesOn == (lc_pc = "cleanup") ~> (lc_pc = "pipeline")

\* C7 witness: connection_pipeline returned Err, the error was reported
\* and the join of the iteration is complete.
C7_Witness ==
    /\ lc_pc = "cleanup"
    /\ last_result = "Err"
    /\ JoinDone(sleep_timer, min_delay)

\* C8: when the lifecycle loop starts the next connection_pipeline, at
\* least RETRY_CONNECT_MIN_INTERVAL has passed since it started the
\* previous one (a driver restart starts a new loop, not a next attempt).
C8_Step ==
    (lc_pc = "cleanup" /\ lc_pc' = "pipeline"
       /\ ~(restart_requested /\ ~restart_requested')) =>
        since_start >= RETRY_CONNECT_MIN_INTERVAL

C8_MinInterval == [][C8_Step]_vars

\* C8 witness: an attempt that failed at once, before any time passed;
\* the join still waits for the whole minimum interval.
C8_Witness ==
    /\ lc_pc = "cleanup"
    /\ last_result = "Err"
    /\ since_start = 0
    /\ min_delay = RETRY_CONNECT_MIN_INTERVAL

\* C9: a broadcast makes client_discovery resolve to its sender exactly when,
\* in the client list as updated for that broadcast, the sender is trusted
\* or auto_trust_clients is set; otherwise discovery goes on searching.
C9_Step ==
    \A h \in Hostnames :
        ClientDiscoveryBroadcast(h) =>
            /\ client_list'[h].present
            /\ IF client_list'[h].trusted \/ settings.auto_trust_clients
               THEN trusted_discovered_client_id' = h /\ ~discovery_running'
               ELSE /\ trusted_discovered_client_id' = None
                    /\ discovery_running'
                    /\ pc' = "connect"

C9_ResolvesOnlyTrusted ==
    [][ /\ C9_Step
        /\ (trusted_discovered_client_id' # None =>
              \/ client_list'[trusted_discovered_client_id'].trusted
              \/ settings.auto_trust_clients) ]_vars

\* C9 witness: discovery resolved to a trusted client, auto trust off.
C9_Witness ==
    /\ pc = "cleanup_pause"
    /\ trusted_discovered_client_id # None
    /\ ~settings.auto_trust_clients
    /\ client_list[trusted_discovered_client_id].trusted

\* C10: fresh pairing.  The broadcast of an unknown hostname adds an entry
\* that is not trusted; and with auto_trust_clients off and a client list
\* as discovery alone fills it (no manual IPs), the pipeline holds no
\* ConnectionInfo as long as no entry is trusted.
FreshPairing(list) ==
    /\ ~settings.auto_trust_clients
    /\ \A h \in Hostnames : ~list[h].trusted /\ list[h].manual_ips = {}

C10_Step ==
    /\ \A h \in Hostnames :
         (ClientDiscoveryBroadcast(h) /\ ~client_list[h].present) =>
             client_list'[h] =
                 [ present |-> TRUE, trusted |-> FALSE, manual_ips |-> {} ]
    /\ (FreshPairing(client_list') =>
          conn_client' = None /\ pc' \notin PostHandshake)

C10_FreshPairing == [][C10_Step]_vars

\* C10 witness: the unknown client was added untrusted and the handshake,
\* without a candidate it could reach, pauses before its next try.
C10_Witness ==
    /\ FreshPairing(client_list)
    /\ \E h \in Hostnames : client_list[h].present
    /\ pc = "connect"
    /\ hs_pc = "retry_pause"

\* ------------------------------------------------------------- C11
\* dim is the largest multiple of 32 not above value (value in units of
\* 1/SubPixel pixel).
LargestMultipleOf32(dim, value) ==
    /\ dim % 32 = 0
    /\ dim * SubPixel <= value
    /\ value < (dim + 32) * SubPixel

\* C11: every eye dimension negotiated by client_handshake, as sent in
\* ClientConfigPacket and as stored in OpenvrConfig (video and target eye
\* width and height), is the largest multiple of 32 that does not exceed
\* the scaled or absolute value it is derived from.
C11_EyeDimsAligned ==
    neg_pc = "sent" =>
        LET video == EyeSize(video_settings.render_resolution, headset_info)
            target == EyeSize(video_settings.recommended_target_resolution,
                              headset_info)
        IN  /\ LargestMultipleOf32(client_config.view_resolution_width, video[1])
            /\ LargestMultipleOf32(client_config.view_resolution_height, video[2])
            /\ LargestMultipleOf32(neg_openvr_config.eye_resolution_width, video[1])
            /\ LargestMultipleOf32(neg_openvr_config.eye_resolution_height, video[2])
            /\ LargestMultipleOf32(neg_openvr_config.target_eye_resolution_width,
                                   target[1])
            /\ LargestMultipleOf32(neg_openvr_config.target_eye_resolution_height,
                                   target[2])

\* The headset recommends 1832x1920 at scale 1.0: the video eye is
\* 1824x1920.
C11_Witness ==
    /\ neg_pc = "sent"
    /\ headset_info.recommended_eye_width = 1832
    /\ headset_info.recommended_eye_height = 1920
    /\ video_settings.render_resolution.type = "Scale"
    /\ video_settings.render_resolution.scale = SubPixel
    /\ client_config.view_resolution_width = 1824
    /\ client_config.view_resolution_height = 1920

\* ------------------------------------------------------------- C12
\* fps is the first element of rates among those closest to preferred_fps.
FirstClosest(fps, rates, preferred_fps) ==
    \E i \in 1..Len(rates) :
        /\ rates[i] = fps
        /\ \A j \in 1..Len(rates) :
              AbsDiff(rates[j], preferred_fps) >= AbsDiff(fps, preferred_fps)
        /\ \A j \in 1..(i - 1) :
              AbsDiff(rates[j], preferred_fps) > AbsDiff(fps, preferred_fps)

\* C12: for a non-empty advertised refresh-rate list the fps chosen by
\* client_handshake is an element of the list closest to preferred_fps,
\* the first such element of the list, and it is the fps of
\* ClientConfigPacket.
C12_ClosestFps ==
    (neg_pc = "sent" /\ headset_info.available_refresh_rates # << >>) =>
        /\ FirstClosest(client_config.fps,
                        headset_info.available_refresh_rates,
                        video_settings.preferred_fps)
        /\ neg_openvr_config.refresh_rate = client_config.fps

\* The client advertises [78, 72, 90] and 75 is preferred: 78 and 72 are
\* equally close and 78, the first, is chosen.
C12_Witness ==
    /\ neg_pc = "sent"
    /\ headset_info.available_refresh_rates = << 78, 72, 90 >>
    /\ video_settings.preferred_fps = 75
    /\ client_config.fps = 78

\* ------------------------------------------------------------- C13
TaskStep ==
    \/ TaskStart
    \/ TaskNotified
    \/ \E h \in ClientHostnames, ok \in BOOLEAN : TaskConfigLoad(h, ok)
    \/ TaskStreamStart
    \/ TaskStreamEvent
    \/ TaskStreamStop

C13_Step ==
    /\ AlvrDestroyDropRuntime => (RUNTIME' = None /\ task_pc' \notin LiveTask)
    /\ RUNTIME = None => (task_pc \notin LiveTask /\ ~TaskStep)

\* C13: when alvr_destroy returns, the RUNTIME slot is empty and the task
\* spawned by alvr_initialize is stopped, registered on ON_DESTROY_NOTIFIER
\* or not; while the slot is empty no task performs a step.
C13_DestroyStopsTask == [][C13_Step]_vars

\* notify_waiters was called while the task had not been polled yet, so
\* that nothing was woken; alvr_destroy goes on to drop the runtime.
C13_Witness ==
    /\ destroy_pc = "notified"
    /\ task_pc = "spawned"
    /\ ~task_notified
    /\ RUNTIME # None

\* ------------------------------------------------------------- C14
C14_Step ==
    (destroyed
       /\ \E h \in ClientHostnames, ok \in BOOLEAN : AlvrInitialize(h, ok))
    => /\ EVENT_QUEUE' = << >>
       /\ CLIENT_STATISTICS_MANAGER' = Nothing
       /\ TRACKING_SENDER' = Nothing
       /\ STATISTICS_SENDER' = Nothing
       /\ CONTROL_CHANNEL_SENDER' = Nothing
       /\ ~IS_RESUMED'
       /\ ~IS_STREAMING'

\* C14: an alvr_initialize that follows alvr_destroy starts from a clean
\* state: the event queue is empty, the statistics manager and the sender
\* slots are empty, and the resumed and streaming flags are false.
C14_CleanReinit == [][C14_Step]_vars

\* ------------------------------------------------------------- C15
C15_Step ==
    (RUNTIME = None /\ (AlvrDestroyNotify \/ AlvrDestroyDropRuntime))
    => /\ RUNTIME' = None
       /\ UNCHANGED << task_pc, task_notified, streamVars, eventVars,
                       IS_RESUMED, storageVars, ret, channel_sent >>

C16_Step ==
    /\ AlvrPollEvent =>
          IF EVENT_QUEUE # << >>
          THEN /\ ret' = Returned("alvr_poll_event", 1)
               /\ out_event' = Head(EVENT_QUEUE)
               /\ EVENT_QUEUE' = Tail(EVENT_QUEUE)
          ELSE /\ ret' = Returned("alvr_poll_event", 0)
               /\ UNCHANGED << out_event, EVENT_QUEUE >>
    /\ delivered' \o EVENT_QUEUE' = enqueued'

\* C16: alvr_poll_event returns true, writes the oldest queued event and
\* removes exactly that one when the queue is not empty, and returns false
\* leaving out_event and the queue alone when it is empty; the events
\* delivered so far followed by the queued ones are the events enqueued,
\* in order (FIFO delivery, each event at most once).
C16_PollFifo == [][C16_Step]_vars

\* Two events were queued and the older one has been delivered.
C16_Witness ==
    /\ enqueued = << 1, 2 >>
    /\ delivered = << 1 >>
    /\ EVENT_QUEUE = << 2 >>
    /\ out_event = 1
    /\ ret = Returned("alvr_poll_event", 1)

\* ------------------------------------------------------------- C17
C17_Step ==
    /\ \A fn \in ControlCalls :
          (CONTROL_CHANNEL_SENDER = Nothing /\ AlvrSendControl(fn))
          => UNCHANGED clientState
    /\ (TRACKING_SENDER = Nothing /\ AlvrSendTracking) => UNCHANGED clientState
    /\ \A latency \in Latencies, ready \in BOOLEAN :
          /\ (CLIENT_STATISTICS_MANAGER = Nothing
                /\ AlvrReportSubmit(latency, ready))
             => UNCHANGED clientState
          /\ (STATISTICS_SENDER = Nothing /\ AlvrReportSubmit(latency, ready))
             => UNCHANGED channel_sent
    /\ (CLIENT_STATISTICS_MANAGER = Nothing /\ AlvrReportFrameDecoded)
       => UNCHANGED clientState

\* C17: with its slot empty, each send or report call of the client does
\* nothing: no message enters a channel and no state changes
\* (alvr_send_views_config, alvr_send_battery, alvr_send_playspace,
\* alvr_send_button, alvr_request_idr: CONTROL_CHANNEL_SENDER;
\* alvr_send_tracking: TRACKING_SENDER; alvr_report_submit and
\* alvr_report_frame_decoded: STATISTICS_MANAGER; alvr_report_submit sends
\* nothing when STATISTICS_SENDER is empty).
C17_EmptySlotNoop == [][C17_Step]_vars

\* The client is initialized and its task runs, but it is not streaming:
\* the slots are empty and no message has been sent.
C17_Witness ==
    /\ task_pc = "running"
    /\ ~IS_STREAMING
    /\ CONTROL_CHANNEL_SENDER = Nothing
    /\ TRACKING_SENDER = Nothing
    /\ STATISTICS_SENDER = Nothing
    /\ CLIENT_STATISTICS_MANAGER = Nothing
    /\ Len(enqueued) = 2
    /\ channel_sent = { }

\* ------------------------------------------------------------- C18
NoFramesReported ==
    \/ CLIENT_STATISTICS_MANAGER = Nothing
    \/ Unwrap(CLIENT_STATISTICS_MANAGER).samples = << >>

C18_Step ==
    (NoFramesReported /\ AlvrGetPredictionOffsetNs)
    => ret' = Returned("alvr_get_prediction_offset_ns", 0)

\* C18: alvr_get_prediction_offset_ns returns 0 when no frames have been
\* reported: with no StatisticsManager installed, and with one installed
\* that has no sample.
C18_ZeroWithoutFrames == [][C18_Step]_vars

\* A StatisticsManager without a sample is installed and the call
\* returned 0.
C18_Witness ==
    /\ IsSome(CLIENT_STATISTICS_MANAGER)
    /\ Unwrap(CLIENT_STATISTICS_MANAGER).samples = << >>
    /\ ret = Returned("alvr_get_prediction_offset_ns", 0)

\* ------------------------------------------------------------- C19
\* The file is present, parses and carries the protocol id of the build.
CurrentConfigFile(file) ==
    /\ ReadConfig(file) # Nothing
    /\ Unwrap(ReadConfig(file)).protocol_id = protocol_id

C19_Step ==
    \A h \in ClientHostnames, ok \in BOOLEAN :
        AlvrInitialize(h, ok) =>
            /\ CurrentConfigFile(config_file')
            /\ CurrentConfigFile(config_file) => config_file' = config_file
            /\ (ReadConfig(config_file) # Nothing /\ ~CurrentConfigFile(config_file))
               => config_file' = FileOf(ConfigDefault(h))

C19_AmendedStep ==
    \A h \in ClientHostnames, ok \in BOOLEAN :
        AlvrInitialize(h, ok) =>
            IF CurrentConfigFile(config_file)
            THEN config_file' = config_file
            ELSE IF ok
                 THEN /\ config_file' = FileOf(ConfigDefault(h))
                      /\ CurrentConfigFile(config_file')
                 ELSE config_file' = config_file

C20_Step ==
    (ReadConfig(config_file) # Nothing
       /\ \E h \in ClientHostnames, ok \in BOOLEAN :
             AlvrInitialize(h, ok) \/ TaskConfigLoad(h, ok))
    => /\ hostname_obtained' = Some(Unwrap(ReadConfig(config_file)).hostname)
       /\ ReadConfig(config_file') # Nothing
       /\ Unwrap(ReadConfig(config_file')).hostname
             = Unwrap(ReadConfig(config_file)).hostname

\* C20: a run of alvr_initialize or of Config::load that finds the config
\* file present and parsing obtains the hostname of the file and leaves it
\* in the file, so that the hostname stays the one first persisted.
C20_HostnameStable == [][C20_Step]_vars

\* ------------------------------------------------------------- C21
\* The file cannot be read or does not parse as a Config.
Unreadable(file) == file.state = "absent" \/ from_str(file.text) = Nothing

C21_Step ==
    \A h \in ClientHostnames, ok \in BOOLEAN :
        StorageLoad(h, ok) =>
            /\ \A c \in Configs :
                  config_file = FileOf(c)
                     => /\ ret'.value = Some(c)
                        /\ config_file' = config_file
            /\ (config_file' # config_file \/ Unreadable(config_file))
                  => /\ Unreadable(config_file)
                     /\ ret'.value = Some(ConfigDefault(h))
                     /\ config_file' = ConfigStore(config_file, ConfigDefault(h), ok)

\* C21: Config::load run on the file a successful c.store() wrote returns a
\* config equal to c (same protocol_id, same hostname) and leaves the file
\* as it is; load makes a default config and stores it only when the file
\* cannot be read or does not parse.
C21_ConfigRoundTrip == [][C21_Step]_vars

\* Config::load has returned a config that is not a default one and whose
\* hostname holds a quote, from the file that config was stored in.
C21_Witness ==
    /\ ret.fn = "Config::load"
    /\ config_file = FileOf(Unwrap(ret.value))
    /\ Unwrap(ret.value).protocol_id = 305
    /\ \E i \in 1..Len(Unwrap(ret.value).hostname) :
          Unwrap(ret.value).hostname[i] = Quote

\* ------------------------------------------------------------- C24
\* The attempt has left no trace of a connection: no event, no script, no
\* call of the driver.
NoTraceOfConnection(att) ==
    /\ att.connected = 0
    /\ att.connect_script = 0
    /\ att.init = 0
    /\ att.deinit = 0
    /\ att.script = 0

C24_Step ==
    \A r \in { "StreamReady", "other", "Err" } :
        RecvStreamAck(r) =>
            IF r = "StreamReady"
            THEN pc' = "stream_socket"
            ELSE /\ pc' = "idle"
                 /\ last_result' = "Err"
                 /\ NoTraceOfConnection(attempt')
                 /\ STATISTICS_MANAGER' = STATISTICS_MANAGER

\* C24: after StartStream the pipeline goes on to build the stream socket
\* only when the next control message is StreamReady; any other message or
\* a receive error makes connection_pipeline return an error, and the
\* attempt has emitted no ClientConnected, has not called
\* InitializeStreaming and has run neither script.
C24_OnlyStreamReadyProceeds == [][C24_Step]_vars

\* connection_pipeline has returned an error from the wait for the stream
\* ack.
C24_Witness ==
    /\ pc = "idle"
    /\ last_result = "Err"
    /\ attempt.ended_by = "stream ack"
    /\ settings.on_connect_script
    /\ settings.on_disconnect_script

\* ------------------------------------------------------------- C25
C25_Step ==
    StreamSocketTimeout =>
        /\ pc' = "idle"
        /\ last_result' = "Err"
        /\ NoTraceOfConnection(attempt')
        /\ STATISTICS_MANAGER' = STATISTICS_MANAGER
        /\ ~stream_guard

\* C25: when the stream socket is not built before the 5-second sleep
\* ends, connection_pipeline returns an error and the attempt leaves no
\* trace of a connection: STATISTICS_MANAGER is not written, no
\* ClientConnected is emitted, InitializeStreaming is not called and no
\* close guard exists that could run.
C25_TimeoutLeavesNoTrace == [][C25_Step]_vars

\* connection_pipeline has returned from the timeout of the stream set-up.
C25_Witness ==
    /\ pc = "idle"
    /\ attempt.ended_by = "stream setup timeout"
    /\ last_result = "Err"
    /\ settings.on_disconnect_script

\* ------------------------------------------------------------- C26
C26_Step ==
    /\ (HandshakeRecv("GameAudioDeviceErr") \/ GameAudioLoopRetries)
          => (pc' = pc /\ lc_pc' = "pipeline")
    /\ attempt'.ended_by # "game_audio_loop"
    /\ (HandshakeRecv("MicrophoneDeviceErr")
          \/ (pc = "setup" /\ SetupSteps[setup_idx] = "AudioDevice::new(microphone)"
                /\ SetupStep(FALSE)))
          => pc' = "idle"

\* C26: a failure of the game audio output device never ends the current
\* connection_pipeline: the pipeline stays where it is, and the branch of
\* game_audio_loop is never the one that ends a connection; a failure of
\* the microphone device ends the pipeline.
C26_GameAudioNeverFatal == [][C26_Step]_vars

\* ------------------------------------------------------------- C29
C29_Step ==
    /\ RestartNotified => (pc' = "restart_send" /\ stream_guard')
    /\ (\E ok \in BOOLEAN : RestartSendDone(ok))
          => /\ pc' = "idle"
             /\ last_result' = "Ok"
             /\ restarting_sent' \in { "sent", "failed" }
             /\ attempt'.deinit = attempt.deinit + 1
    /\ (pc = "streaming" /\ pc' = "idle"
           /\ attempt'.ended_by = "RESTART_NOTIFIER") => FALSE
    /\ DisconnectClientNotified
          => /\ pc' = "idle"
             /\ last_result' = "Ok"
             /\ restarting_sent' = "no"
             /\ attempt'.deinit = attempt.deinit + 1

\* C29: when RESTART_NOTIFIER fires during streaming, connection_pipeline
\* does not return before its send of Restarting has completed, with or
\* without error, and then returns Ok; when DISCONNECT_CLIENT_NOTIFIER
\* fires it returns Ok and no Restarting has been sent; in both cases the
\* close guard runs at the return.
C29_RestartingBeforeReturn == [][C29_Step]_vars

\* The pipeline has returned after RESTART_NOTIFIER fired, and the send of
\* Restarting had failed.
C29_Witness ==
    /\ pc = "idle"
    /\ attempt.ended_by = "RESTART_NOTIFIER"
    /\ restarting_sent = "failed"
    /\ last_result = "Ok"
    /\ attempt.deinit = 1

\* ------------------------------------------------------------- C22
SetTrackingCalls == SelectSeq(driver_calls, LAMBDA c : c.fn = "SetTracking")

\* The motion is the head's, or a controller's that the TrackingManager
\* does not filter out.
NotFilteredOut(motion) ==
    motion.id = HEAD_ID \/ map_controller(headset, motion) # Nothing

IdsOf(motions) == [ j \in 1..Len(motions) |-> motions[j].id ]

FilteredControllers(motions) ==
    { j \in 1..Len(motions) : ~NotFilteredOut(motions[j]) }

\* C22: the calls of SetTracking are, in order, one per Tracking frame
\* received: each with the frame's target timestamp and with the frame's
\* motions without the controller motions the TrackingManager filtered
\* out, in their original order, the device count being the count sent
\* minus the filtered controllers.
C22_SetTrackingPerFrame ==
    /\ Len(SetTrackingCalls) = Len(frames_received)
    /\ \A i \in 1..Len(frames_received) :
          LET frame == frames_received[i]
              call == SetTrackingCalls[i]
              kept == SelectSeq(frame.device_motions, NotFilteredOut)
          IN  /\ call.args[1] = frame.target_timestamp
              /\ call.args[2] = Len(frame.device_motions)
                                   - Cardinality(FilteredControllers(frame.device_motions))
              /\ Len(call.motions) = call.args[2]
              /\ IdsOf(call.motions) = IdsOf(kept)
              /\ \A j \in 1..Len(call.motions) : call.motions[j].mapped

\* Two different frames were received, one with a controller motion that
\* was filtered out, and SetTracking was called for both.
C22_Witness ==
    /\ Len(frames_received) = 2
    /\ frames_received[1] # frames_received[2]
    /\ FilteredControllers(frames_received[1].device_motions) # {}
    /\ Len(frames_received[1].device_motions) = 3
    /\ Len(SetTrackingCalls) = 2

\* ------------------------------------------------------------- C30
SetChaperoneCalls == SelectSeq(driver_calls, LAMBDA c : c.fn = "SetChaperone")

PlayspaceSyncsReceived ==
    SelectSeq(packets_received, LAMBDA p : p.type = "PlayspaceSync")

AtLeastTwoMetres(side) == IF side < 20 THEN 20 ELSE side

\* Every PlayspaceSync received so far has had its one call of
\* SetChaperone, in the order received, or waits for it in the channel.
C30_OncePerPacket ==
    IF headset.tracking_ref_only
    THEN SetChaperoneCalls = << >>
    ELSE /\ Len(SetChaperoneCalls) + Len(playspace_sync_channel)
               = Len(PlayspaceSyncsReceived)
         /\ \A i \in 1..Len(SetChaperoneCalls) :
               SetChaperoneCalls[i].args =
                   << AtLeastTwoMetres(PlayspaceSyncsReceived[i].x),
                      AtLeastTwoMetres(PlayspaceSyncsReceived[i].y) >>
         /\ \A i \in 1..Len(playspace_sync_channel) :
               playspace_sync_channel[i] =
                   PlayspaceSyncsReceived[Len(SetChaperoneCalls) + i]

\* C30: for every PlayspaceSync(w,h) control_loop receives, if tracking is
\* not reference-only SetChaperone is called exactly once, with
\* (max(w,2.0), max(h,2.0)), by the thread and in the order received, and
\* no packet waits forever; if tracking is reference-only SetChaperone is
\* never called.
C30_SetChaperonePerPlayspaceSync ==
    /\ []C30_OncePerPacket
    /\ <>[](playspace_sync_channel = << >>)

\* Two different PlayspaceSync packets were received and the thread has
\* called SetChaperone for both.
C30_Witness ==
    /\ ~headset.tracking_ref_only
    /\ Len(PlayspaceSyncsReceived) = 2
    /\ PlayspaceSyncsReceived[1] # PlayspaceSyncsReceived[2]
    /\ Len(SetChaperoneCalls) = 2

\* ------------------------------------------------------------- C23
\* C23: once the select has resolved, every other loop of the connection
\* is cancelled before the close guard runs: after DeinitializeStreaming
\* has been called for the connection, nothing of that connection calls
\* the driver again.
C23_NothingAfterDeinitialize ==
    \A i \in 1..Len(driver_calls) :
        driver_calls[i].fn = "DeinitializeStreaming" => i = Len(driver_calls)

\* ------------------------------------------------------------- C27
\* The handler of the RESTART_NOTIFIER branch waits for the Mutex, or has
\* taken it and sends.
RestartWaitsForSender == restart_step = "lock"

RestartHasSender ==
    /\ control_sender = "RESTART_NOTIFIER"
    /\ sends_in_flight = { "Restarting" }

\* C27: every send on control_sender during streaming is made by the
\* holder of the one Mutex, so at most one send is in flight at a time;
\* and once RESTART_NOTIFIER has won the select, its send of Restarting
\* gets the Mutex, whatever keepalive_loop was doing with it.
C27_ControlSendsUnderOneMutex ==
    /\ [](/\ Cardinality(sends_in_flight) <= 1
          /\ ("KeepAlive" \in sends_in_flight => control_sender = "keepalive_loop")
          /\ ("Restarting" \in sends_in_flight => control_sender = "RESTART_NOTIFIER"))
    /\ (RestartWaitsForSender ~> RestartHasSender)

\* RESTART_NOTIFIER has won the select, keepalive_loop is dropped and the
\* send of Restarting holds the Mutex.
C27_Witness ==
    /\ RestartHasSender
    /\ restart_step = "send"
    /\ ka_step = "off"
    /\ attempt.ended_by = "RESTART_NOTIFIER"

\* ------------------------------------------------------------- C28
\* keepalive_loop waits for a read guard that the lock holds back for the
\* waiting writer, and the writer waits for the read guard keepalive_loop
\* holds.
KeepaliveDeadlocked ==
    /\ ka_step \in { "read", "read_again" }
    /\ writer_pc = "waiting"
    /\ data_manager_readers > 0

\* C28: keepalive_loop never blocks forever: its second read() of
\* SERVER_DATA_MANAGER, taken while it holds the first guard, cannot
\* deadlock with a thread that asks for the write lock between the two.
C28_KeepaliveNeverDeadlocks == ~KeepaliveDeadlocked

\* ------------------------------------------------------------- C31
\* connection_pipeline has returned from a streaming connection whose peer
\* was lost, and the lifecycle loop waits for its join.
EndedByPeerLoss ==
    /\ lc_pc = "cleanup"
    /\ peer_lost
    /\ attempt.loops_started
    /\ attempt.ended_by \in PeerLossObservers

\* The lifecycle loop starts its next connection_pipeline.
NextPipelineStarts ==
    /\ lc_pc = "cleanup"
    /\ lc_pc' = "pipeline"
    /\ ~(restart_requested /\ ~restart_requested')

C31_Step ==
    (EndedByPeerLoss /\ NextPipelineStarts) =>
        since_return >= RETRY_CONNECT_MIN_INTERVAL

\* C31 (as claimed): after a peer loss that ended a streaming connection,
\* the next connection_pipeline starts no earlier than 1 s after the
\* disconnect.
C31_OneSecondAfterDisconnect == [][C31_Step]_vars

C31_AmendedStep ==
    (EndedByPeerLoss /\ NextPipelineStarts) =>
        /\ since_return >= CLEANUP_PAUSE
        /\ since_start >= RETRY_CONNECT_MIN_INTERVAL

\* C31 (amended): after a peer loss that ended a streaming connection, the
\* next connection_pipeline starts no earlier than CLEANUP_PAUSE (500 ms)
\* after the disconnect, and no earlier than 1 s after the start of the
\* pipeline that ended.
C31_CleanupPauseAfterDisconnect == [][C31_AmendedStep]_vars

\* The join is complete less than 1 s after the peer loss ended the
\* connection: the next pipeline is about to start.
C31_Witness ==
    /\ EndedByPeerLoss
    /\ JoinDone(sleep_timer, min_delay)
    /\ since_return >= CLEANUP_PAUSE
    /\ since_return < RETRY_CONNECT_MIN_INTERVAL

\* ------------------------------------------------------------- C32
\* A client_handshake starts: at the top of the loop of
\* connection_pipeline, in a new pipeline or in a new process.
HandshakeStarts == CleanupPauseDone \/ LifecycleNext \/ DriverRestart

ManualIpsOfAllEntries(list) == UNION { list[h].manual_ips : h \in Hostnames }

C32_Step ==
    /\ HandshakeStarts =>
          hs_client_ips' =
              IF trusted_discovered_client_id' # None
              THEN { IpOf(trusted_discovered_client_id') }
              ELSE ManualIpsOfAllEntries(client_list')
    /\ (~HandshakeStarts /\ hs_pc # "off" /\ hs_pc' # "off") =>
          hs_client_ips' = hs_client_ips
    /\ hs_client_ip' # None => hs_client_ip' \in hs_client_ips'
    /\ (trusted_discovered_client_id # None /\ pc' \in { "connect", "cleanup_pause" }
          /\ ~(restart_requested /\ ~restart_requested')) =>
          /\ trusted_discovered_client_id' = trusted_discovered_client_id
          /\ ~discovery_running'

\* C32: the candidate IPs of a handshake are the one discovered IP when
\* discovery has resolved, and otherwise the union of the manual IPs of
\* all entries of the client list, read when the handshake starts and not
\* again, and the handshake connects to a candidate only; once discovery
\* has resolved in a pipeline, the later handshakes of that pipeline keep
\* the discovered id and discovery does not run again.
C32_CandidateIps == [][C32_Step]_vars

\* After discovery resolved, the handshake of the next iteration has
\* connected to the discovered IP, which is no manual IP of the list.
C32_Witness ==
    /\ pc = "connect"
    /\ trusted_discovered_client_id # None
    /\ hs_client_ips = { IpOf(trusted_discovered_client_id) }
    /\ ManualIpsOfAllEntries(client_list) = {}
    /\ hs_client_ip = IpOf(trusted_discovered_client_id)
    /\ ~discovery_running

\* ------------------------------------------------------------- C33
\* The positions of the connect loop of client_handshake
\* (connection.rs:114-132).
InConnectLoop(p) == p \in { "connecting", "recv_result", "retry_pause" }

\* The select of connection_pipeline drops the handshake, or the process
\* is restarted.
HandshakeCancelled ==
    \/ \E h \in Hostnames : ClientDiscoveryBroadcast(h)
    \/ ClientDiscoveryFails
    \/ ClientsUpdatedNotified
    \/ DriverRestart

C33_Step ==
    /\ (HandshakeConnect("timeout") \/ HandshakeRecv("ClientStandby")) =>
          /\ hs_pc' = "retry_pause"
          /\ hs_timer' = CONTROL_CONNECT_RETRY_PAUSE
          /\ pc' = "connect"
          /\ last_result' = last_result
    /\ (pc = "connect" /\ hs_pc = "retry_pause" /\ hs_pc' # "retry_pause"
          /\ ~HandshakeCancelled) =>
          /\ hs_timer = 0
          /\ hs_pc' = "connecting"
          /\ pc' = "connect"
    /\ (pc = "connect" /\ InConnectLoop(hs_pc) /\ ~InConnectLoop(hs_pc')
          /\ ~HandshakeCancelled) =>
          \/ HandshakeRecv("ServerAccepted") /\ hs_pc' = "send_config"
          \/ /\ \E r \in { "Err", "GameAudioDeviceErr", "MicrophoneDeviceErr" } :
                   HandshakeRecv(r)
             /\ hs_pc = "recv_result"
             /\ pc' = "idle"

\* C33: in client_handshake a failed connect and a ClientStandby reply are
\* no errors: each makes the loop sleep CONTROL_CONNECT_RETRY_PAUSE and
\* connect again, without limit; the handshake leaves its connect loop
\* only with a ServerAccepted reply, or with an error on a control socket
\* that was connected.
C33_ConnectLoopRetries == [][C33_Step]_vars

\* The handshake is about to connect again after a failed connect or a
\* ClientStandby reply and the pause; nothing was reported.
C33_Witness ==
    /\ pc = "connect"
    /\ hs_pc = "retry_pause"
    /\ hs_timer = 0
    /\ hs_client_ips # {}
    /\ last_result = None
    /\ since_start >= CONTROL_CONNECT_RETRY_PAUSE

\* ------------------------------------------------------------- C34
\* client_handshake returns to the select of connection_pipeline, with a
\* ConnectionInfo or with an error.
HandshakeResolves ==
    \/ \E ok \in BOOLEAN : HandshakeSendConfig(ok) /\ hs_pc' = "off"
    \/ \E r \in { "Err", "GameAudioDeviceErr", "MicrophoneDeviceErr" } :
          HandshakeRecv(r)

C34_Step ==
    /\ discovery_running' =>
          /\ pc' = "connect"
          /\ hs_pc' # "off"
          /\ trusted_discovered_client_id' = None
    /\ (HandshakeStarts /\ discovery_running') =>
          hs_client_ips' = ManualIpsOfAllEntries(client_list')
    /\ (discovery_running /\ trusted_discovered_client_id' # None) =>
          /\ hs_pc' = "off"
          /\ hs_client_ip' = None
          /\ ~discovery_running'
          /\ pc' = "cleanup_pause"
    /\ (discovery_running /\ HandshakeResolves) =>
          /\ ~discovery_running'
          /\ trusted_discovered_client_id' = None
          /\ pc' \in { "start_stream", "idle" }
    /\ ClientDiscoveryFails =>
          /\ last_result' = "Ok"
          /\ lc_pc' = "cleanup"
          /\ hs_pc' = "off"
          /\ ~discovery_running'
    /\ LifecycleNext => discovery_running' = settings.client_discovery

\* C34: while client_discovery runs, a client_handshake over the manual
\* IPs of the client list runs beside it; when one of the two resolves the
\* other is dropped; an error of client_discovery makes the pipeline
\* return Ok, and the next pipeline of the lifecycle loop runs discovery
\* again.
C34_DiscoveryRacesHandshake == [][C34_Step]_vars

\* client_discovery returned an error while the handshake was running:
\* the pipeline returned Ok and the lifecycle loop goes on.
C34_Witness ==
    /\ lc_pc = "cleanup"
    /\ attempt.ended_by = "client_discovery"
    /\ last_result = "Ok"
    /\ hs_pc = "off"

\* ------------------------------------------------------------- C35
C35_Step ==
    /\ clients_updated' => (pc' = "connect" /\ hs_pc' # "off")
    /\ ClientsUpdatedNotified =>
          /\ pc' = "idle"
          /\ last_result' = "Ok"
          /\ ~discovery_running'
          /\ hs_pc' = "off"
          /\ hs_client_ip' = None
          /\ conn_client' = None
          /\ NoTraceOfConnection(attempt')
    /\ (pc = "connect" /\ clients_updated) => ENABLED ClientsUpdatedNotified

\* C35: in every iteration of the connection phase the select races the
\* handshake (and discovery, when it runs) against
\* CLIENTS_UPDATED_NOTIFIER: when the notifier wins, discovery and
\* handshake are dropped, the control socket the handshake had opened is
\* closed with it, and connection_pipeline returns Ok without a
\* ConnectionInfo.
C35_ClientsUpdatedCancels == [][C35_Step]_vars

\* The notifier won against a handshake that had connected and sent
\* Restarting on its control socket.
C35_Witness ==
    /\ pc = "idle"
    /\ attempt.ended_by = "CLIENTS_UPDATED_NOTIFIER"
    /\ restarting_sent = "sent"
    /\ last_result = "Ok"
    /\ hs_client_ip = None

\* ------------------------------------------------------------- C36
SentInChannelOrder(stream) ==
    \A i, j \in 1..Len(send_log[stream]) :
        i < j => send_log[stream][i].record < send_log[stream][j].record

SendFailed(stream) ==
    \E i \in 1..Len(send_log[stream]) : send_log[stream][i].result = "Err"

\* C36: an error while sending a record on the VIDEO or HAPTICS stream
\* ends the sending loop and with it the connection, and the records are
\* handed to the stream in the order they were put into the channel.
C36_SendErrorFatalInOrder ==
    \A stream \in Streams :
        /\ SendFailed(stream) =>
              /\ pc # "streaming"
              /\ attempt.ended_by = SendLoopOf(stream)
        /\ SentInChannelOrder(stream)

\* ------------------------------------------------------------- C37
\* The step calls InitializeStreaming (connection.rs:593).
CallsInitializeStreaming == attempt'.init = attempt.init + 1

\* The step calls DeinitializeStreaming (connection.rs:455).
CallsDeinitializeStreaming == attempt'.deinit = attempt.deinit + 1

\* A streaming session is initialized and not yet deinitialized.
SessionOpen == attempt.init = attempt.deinit + 1

\* The driver restarts: the process of the server, and the run of
\* connection_lifecycle_loop with it, ends and a new run starts.
RunEnds == DriverRestart

C37_SameRun ==
    /\ ~(CallsInitializeStreaming /\ CallsDeinitializeStreaming)
    /\ CallsInitializeStreaming =>
          /\ ~stream_guard /\ attempt.init = attempt.deinit
          /\ stream_guard' /\ conn_client' # None
    /\ CallsDeinitializeStreaming =>
          /\ stream_guard /\ attempt.init = attempt.deinit + 1
          /\ ~stream_guard'
    /\ (stream_guard' # stream_guard) =>
          (CallsInitializeStreaming \/ CallsDeinitializeStreaming)
    /\ (attempt' # attempt /\ ~CallsInitializeStreaming
                           /\ ~CallsDeinitializeStreaming) =>
          (attempt'.init = attempt'.deinit) = (attempt.init = attempt.deinit)
    /\ stream_guard' = (attempt'.init = attempt'.deinit + 1)
    /\ attempt'.init \in { attempt'.deinit, attempt'.deinit + 1 }

C37_Step ==
    /\ ~RunEnds => C37_SameRun
    /\ RunEnds => (~stream_guard' /\ attempt'.init = 0 /\ attempt'.deinit = 0)

\* C37: over a run of connection_lifecycle_loop the calls of
\* InitializeStreaming and DeinitializeStreaming alternate, the first of
\* them being InitializeStreaming: InitializeStreaming is called only
\* while no session is open, DeinitializeStreaming only while one is, and
\* the number of open sessions is 0 or 1 at every moment.
C37_InitDeinitAlternate == [][C37_Step]_vars

\* A session was initialized and then, when DISCONNECT_CLIENT_NOTIFIER
\* ended the connection, deinitialized: no session is open.
C37_Witness ==
    /\ pc = "idle"
    /\ attempt.ended_by = "DISCONNECT_CLIENT_NOTIFIER"
    /\ attempt.init = 1
    /\ attempt.deinit = 1
    /\ ~stream_guard
    /\ conn_client = None

\* ------------------------------------------------------------- C38
\* C38: with auto_trust_clients off, the pipeline holds a ConnectionInfo
\* (the handshake completed, the stream is started) only for a client whose
\* entry of the client list is trusted, manual IPs or not.
C38_OnlyTrustedClients ==
    ~settings.auto_trust_clients =>
        \A h \in Hostnames :
            (pc \in PostHandshake /\ conn_client = IpOf(h)) =>
                client_list[h].trusted

\* ------------------------------------------------------------- C39
C39_Step ==
    /\ (pc # "streaming" /\ pc' = "streaming") =>
          LAST_AVERAGE_TOTAL_LATENCY' = 0
    /\ \A latency \in AverageLatencies :
          StatisticsReceive(latency) => LAST_AVERAGE_TOTAL_LATENCY' = latency
    /\ (pc = "streaming" /\ pc' = "streaming"
           /\ ~\E latency \in AverageLatencies : StatisticsReceive(latency)) =>
          LAST_AVERAGE_TOTAL_LATENCY' = LAST_AVERAGE_TOTAL_LATENCY

\* C39: LAST_AVERAGE_TOTAL_LATENCY, from which tracking_receive_loop
\* computes the predictions it passes to SetTracking, is zero when a
\* connection starts streaming, stays zero until the first ClientStatistics
\* record of that connection, and from then on is the latency of the most
\* recent record.
C39_LatencyOfThisConnection == [][C39_Step]_vars

=============================================================================
